---- MODULE Spec2Model ----
(***************************************************************************)
(* Layout-preserving text replacement on flat PDF documents                *)
(* (back/filler_agent/text_utils.py, back/filler_agent/pdf_filler.py).     *)
(*                                                                         *)
(* A document is a sequence of pages.  A page has a height and a sequence  *)
(* of text lines in extraction order; a line has a vertical band [y0, y1], *)
(* a left edge x0 and a sequence of spans; a span is a sequence of         *)
(* characters.  Every glyph is one unit wide, so the glyph at offset k of  *)
(* a line occupies [x0 + k, x0 + k + 1].  Strings are sequences of         *)
(* characters; a character is a one-element name such as "A" or "EMDASH".  *)
(***************************************************************************)
EXTENDS Integers, Sequences, FiniteSets, Bags, TLC

VARIABLES
    files,          \* the file system: path -> <<document>>, or None
    pdf_path,       \* argument of the running driver call
    out_path,       \* argument of the running driver call
    args,           \* arguments s1, s2 and position of the running driver call
    s1_lines,       \* search lines of the running call (filtered after entry)
    s2_lines,       \* replacement lines of the running call
    doc,            \* the document opened by the running call (in memory)
    last_position,  \* the cursor of the running call
    idx,            \* index of the next line pair of the loop (1-based)
    pc,             \* position of the driver: call, loop, returned, raised
    err,            \* the exception that ended the call, or "" 
    log,            \* history: one record per line pair the loop has processed
    font_cache,     \* per-call cache: font name -> font handle
    tmp_dir,        \* TRUE while the temporary font directory exists
    doc_open,       \* TRUE while the document handle is open
    fpc,            \* position of fill_flat_pdf_with_entries
    text_cursor,    \* history: the cursor at the end of the text batch
    cb_in,          \* the checkbox line pairs of fill_flat_pdf_with_entries
    max_concurrent, \* LLMPriorityQueue.max_concurrent
    running,        \* LLMPriorityQueue.running
    workers,        \* LLMPriorityQueue.workers: the threads, with their state
    queue,          \* LLMPriorityQueue.queue: a bag of entries
    urgent_queue,   \* LLMPriorityQueue.urgent_queue: entries, first in first out
    tasks,          \* the tasks submitted so far, with their futures
    callers,        \* position of each thread that calls the queue
    stop_returned,  \* history: tasks submitted before a stop() that returned
    cancelled,      \* cancel_manager._cancelled
    calls,          \* the call each client thread has in progress
    reg_log         \* history: the registry operations, in the order of the lock

vars == <<files, pdf_path, out_path, args, s1_lines, s2_lines, doc, last_position,
          idx, pc, err, log, font_cache, tmp_dir, doc_open, fpc, text_cursor,
          cb_in, max_concurrent, running, workers, queue, urgent_queue, tasks,
          callers, stop_returned, cancelled, calls, reg_log>>

\* the variables of the document functions
pdfVars == <<files, pdf_path, out_path, args, s1_lines, s2_lines, doc,
             last_position, idx, pc, err, log, font_cache, tmp_dir, doc_open,
             fpc, text_cursor, cb_in>>

\* the variables of the priority queue of LLM calls
queueVars == <<max_concurrent, running, workers, queue, urgent_queue, tasks,
               callers, stop_returned>>

\* the variables of the cancellation registry
cancelVars == <<cancelled, calls, reg_log>>

\* the threads that call into the queue and into the registry
Threads == {"t1", "t2"}

\* Python's None is the empty tuple and a value x that may be None is <<x>>
None == <<>>
Some(x) == <<x>>
Val(o) == o[1]

----------------------------------------------------------------------------
(* Bounds of the model *)

\* longest list of line pairs handed to one driver call
MaxPairs == 3
\* most text lines in a document
MaxLines == 2
\* longest replacement string of the sanitizer specification
MaxLen == 2
\* longest list of fill entries, and of checkbox entries
MaxEntries == 2

----------------------------------------------------------------------------
(* The queue and the registry before anything has used them *)

\* no thread is inside start(), stop() or submit()
IdleCaller == [at |-> "idle", seen |-> {}]

\* LLMPriorityQueue.__init__, with max_concurrent = 0
QueueIdle ==
    /\ max_concurrent = 0
    /\ running = FALSE
    /\ workers = <<>>
    /\ queue = EmptyBag
    /\ urgent_queue = <<>>
    /\ tasks = <<>>
    /\ callers = [t \in Threads |-> IdleCaller]
    /\ stop_returned = {}

\* no thread is inside a call of the registry or of an endpoint
IdleCall == [op |-> "idle", path |-> <<>>, norm |-> <<>>, at |-> "idle",
             touched |-> FALSE]

\* cancel_manager when the module has been imported
RegistryIdle ==
    /\ cancelled = {}
    /\ calls = [t \in Threads |-> IdleCall]
    /\ reg_log = <<>>

----------------------------------------------------------------------------
(* Strings *)

RECURSIVE Concat(_)
Concat(seqs) ==
    IF seqs = <<>> THEN <<>> ELSE Head(seqs) \o Concat(Tail(seqs))

StartsWith(t, p) ==
    /\ Len(p) <= Len(t)
    /\ SubSeq(t, 1, Len(p)) = p

\* Python: p in t
Contains(t, p) ==
    \E k \in 0..(Len(t) - Len(p)) : SubSeq(t, k + 1, k + Len(p)) = p

\* Python str.replace(old, new) for a one-character old
RECURSIVE StrReplace(_, _, _)
StrReplace(t, old, new) ==
    IF t = <<>> THEN <<>>
    ELSE (IF Head(t) = old THEN new ELSE <<Head(t)>>)
         \o StrReplace(Tail(t), old, new)

\* the dictionary unicode_replacements, in insertion order
unicode_replacements ==
    << <<"LDQUOTE", <<"dq">> >>,
       <<"RDQUOTE", <<"dq">> >>,
       <<"LSQUOTE", <<"sq">> >>,
       <<"RSQUOTE", <<"sq">> >>,
       <<"EMDASH", <<"-", "-">> >>,
       <<"ENDASH", <<"-">> >>,
       <<"ELLIPSIS", <<".", ".", ".">> >>,
       <<"NBSP", <<" ">> >> >>

RECURSIVE ApplyReplacements(_, _)
ApplyReplacements(t, table) ==
    IF table = <<>> THEN t
    ELSE ApplyReplacements(StrReplace(t, Head(table)[1], Head(table)[2]),
                           Tail(table))

\* variant: a table of the four quotation marks only
sanitize_quotes_only(text) ==
    ApplyReplacements(text, SubSeq(unicode_replacements, 1, 4))

\* sanitize_unicode_for_pdf: the replacements of the table, one after the
\* other
sanitize_unicode_for_pdf(text) ==
    IF text = <<>> THEN text
    ELSE ApplyReplacements(text, unicode_replacements)

\* the characters the sanitizer is to remove
UnicodeChars == {unicode_replacements[k][1] : k \in 1..Len(unicode_replacements)}

----------------------------------------------------------------------------
(* Geometry of a page *)

LineText(line) == Concat(line.spans)

\* offsets (0-based) of the successive non-overlapping matches of s in t,
\* scanning from offset k
RECURSIVE MatchesFrom(_, _, _)
MatchesFrom(t, s, k) ==
    IF s = <<>> \/ k + Len(s) > Len(t) THEN <<>>
    ELSE IF SubSeq(t, k + 1, k + Len(s)) = s
         THEN <<k>> \o MatchesFrom(t, s, k + Len(s))
         ELSE MatchesFrom(t, s, k + 1)

LineRects(line, s) ==
    LET ms == MatchesFrom(LineText(line), s, 0)
    IN [j \in 1..Len(ms) |->
          [x0 |-> line.x0 + ms[j], x1 |-> line.x0 + ms[j] + Len(s),
           y0 |-> line.y0, y1 |-> line.y1]]

\* page.search_for(s, quads=False): one rectangle per hit, lines in
\* extraction order, hits of a line left to right
RECURSIVE RectsOfLines(_, _)
RectsOfLines(lines, s) ==
    IF lines = <<>> THEN <<>>
    ELSE LineRects(Head(lines), s) \o RectsOfLines(Tail(lines), s)

search_for(page, s) == RectsOfLines(page.lines, s)

Min(S) == CHOOSE m \in S : \A n \in S : m <= n

\* page_offset = page_index * page.rect.height, page_index counted from 0
page_offset(d, p) == (p - 1) * d[p].height

----------------------------------------------------------------------------
(* get_string_last_char_position_pdf *)

\* the inner loop over the rectangles of one page: the first rectangle
\* whose global_y passes the position test
PagePosition(d, p, s, position) ==
    LET rects == search_for(d[p], s)
        ok == {k \in 1..Len(rects) :
                 \/ position = None
                 \/ page_offset(d, p) + rects[k].y1 > Val(position)}
    IN IF ok = {} THEN None
       ELSE Some(page_offset(d, p) + rects[Min(ok)].y1)

\* the loop over the pages (the empty-string check is made by the callers
\* of this operator, see LocatorRaises)
get_string_last_char_position_pdf(d, s, position) ==
    LET hit == {p \in 1..Len(d) : PagePosition(d, p, s, position) # None}
    IN IF hit = {} THEN None
       ELSE PagePosition(d, Min(hit), s, position)

\* if not s: raise ValueError
LocatorRaises(s) == s = <<>>

----------------------------------------------------------------------------
(* replace_text_preserve_layout_pdf._replace_once: locating *)

\* accumulated_text after the first j spans, and the left edge of span j
Accumulated(spans, j) == Concat(SubSeq(spans, 1, j))
SpanLeft(spans, x0, j) == x0 + Len(Accumulated(spans, j - 1))

\* The loop over the spans of a line.  It ends at the first span j with
\* accumulated_text.startswith(search), where search_end_x becomes the
\* right edge of span j; search_start_x is the left edge of the first
\* span, up to there, at which search.startswith(accumulated_text +
\* span_text).  -1 stands for None.
SpanScan(spans, x0, search) ==
    LET ends == {j \in 1..Len(spans) :
                   StartsWith(Accumulated(spans, j), search)}
        upto == IF ends = {} THEN Len(spans) ELSE Min(ends)
        starts == {j \in 1..upto :
                     StartsWith(search, Accumulated(spans, j))}
    IN [sx |-> IF starts = {} THEN -1 ELSE SpanLeft(spans, x0, Min(starts)),
        ex |-> IF ends = {} THEN -1 ELSE SpanLeft(spans, x0, Min(ends) + 1)]

\* the rectangle the line-level scan builds for one line, or None
LineLevelRect(line, off, search, last_pos) ==
    LET b == SpanScan(line.spans, line.x0, search)
    IN IF /\ Contains(LineText(line), search)
          /\ (last_pos = None \/ off + line.y1 > Val(last_pos))
          /\ b.sx # -1
          /\ b.ex # -1
       THEN Some([x0 |-> b.sx, y0 |-> line.y0, x1 |-> b.ex, y1 |-> line.y1])
       ELSE None

\* if len(rects) > 1: the first line, in extraction order, whose scan
\* yields a rectangle
LineLevel(page, off, search, last_pos) ==
    LET ok == {k \in 1..Len(page.lines) :
                 LineLevelRect(page.lines[k], off, search, last_pos) # None}
    IN IF ok = {} THEN None
       ELSE LineLevelRect(page.lines[Min(ok)], off, search, last_pos)

\* vertical tolerance of the fallback union
Tolerance == 2

\* number of rectangles after rects[h] that are taken as the same hit
RECURSIVE Followers(_, _, _)
Followers(rects, h, k) ==
    IF k > Len(rects) THEN 0
    ELSE IF /\ 2 * (rects[h].y0 - Tolerance) <= rects[k].y0 + rects[k].y1
            /\ rects[k].y0 + rects[k].y1 <= 2 * (rects[h].y1 + Tolerance)
         THEN 1 + Followers(rects, h, k + 1)
         ELSE 0

Max(S) == CHOOSE m \in S : \A n \in S : m >= n

\* the fallback: the first rectangle below last_pos, united with its
\* followers
Fallback(rects, off, last_pos) ==
    LET ok == {k \in 1..Len(rects) :
                 last_pos = None \/ off + rects[k].y1 > Val(last_pos)}
    IN IF ok = {} THEN None
       ELSE LET h == Min(ok)
                same == h..(h + Followers(rects, h, h + 1))
            IN Some([x0 |-> Min({rects[k].x0 : k \in same}),
                     y0 |-> Min({rects[k].y0 : k \in same}),
                     x1 |-> Max({rects[k].x1 : k \in same}),
                     y1 |-> Max({rects[k].y1 : k \in same})])

\* the body of the loop over the pages, for one page
LocateOnPage(d, p, search, last_pos) ==
    LET rects == search_for(d[p], search)
        off == page_offset(d, p)
        byLine == IF Len(rects) > 1
                  THEN LineLevel(d[p], off, search, last_pos)
                  ELSE None
    IN IF rects = <<>> THEN None
       ELSE IF byLine # None THEN byLine
       ELSE Fallback(rects, off, last_pos)

\* selected_page_index (1-based) and selected_rect, or None
Locate(d, search, last_pos) ==
    LET hit == {p \in 1..Len(d) : LocateOnPage(d, p, search, last_pos) # None}
    IN IF hit = {} THEN None
       ELSE Some([page |-> Min(hit),
                  rect |-> Val(LocateOnPage(d, Min(hit), search, last_pos))])

----------------------------------------------------------------------------
(* replace_text_preserve_layout_pdf._replace_once._get_font *)

Tiro == <<"t", "i", "r", "o">>
Helv == <<"h", "e", "l", "v">>
Cour == <<"c", "o", "u", "r">>

\* pymupdf_font_map, in insertion order
pymupdf_font_map ==
    << <<(<<"l", "m", "r", "o", "m", "a", "n">>), Tiro>>,
       <<(<<"c", "m", "r">>), Tiro>>,
       <<(<<"t", "i", "m", "e", "s">>), Tiro>>,
       <<(<<"a", "r", "i", "a", "l">>), Helv>>,
       <<(<<"h", "e", "l", "v", "e", "t", "i", "c", "a">>), Helv>>,
       <<(<<"l", "m", "s", "a", "n", "s">>), Helv>>,
       <<(<<"c", "m", "s", "s">>), Helv>>,
       <<(<<"c", "o", "u", "r", "i", "e", "r">>), Cour>>,
       <<(<<"l", "m", "m", "o", "n", "o">>), Cour>>,
       <<(<<"c", "m", "t", "t">>), Cour>>
    >>

LowerChar(c) ==
    CASE c = "A" -> "a" [] c = "C" -> "c" [] c = "H" -> "h" [] c = "M" -> "m"
      [] c = "R" -> "r" [] c = "T" -> "t" [] OTHER -> c

\* str.lower()
Lower(s) == [k \in 1..Len(s) |-> LowerChar(s[k])]

FontByName(n) == [kind |-> "fontname", arg |-> n]
FontByFile(f) == [kind |-> "fontfile", arg |-> f]

\* The environment of one resolution: which constructions of fitz.Font
\* succeed and what get_available_font does.
\*   exact    fitz.Font(fontname=name) succeeds
\*   builtin  the built-in names whose construction succeeds
\*   helper   [raises, name, path]: the helper raises, or returns
\*            (name, path), each of which may be None
\*   file     fitz.Font(fontfile=path) succeeds
\*   resolved fitz.Font(fontname=resolved_name) succeeds

\* step 2: the loop over pymupdf_font_map from entry k on
RECURSIVE FamilyLookup(_, _, _)
FamilyLookup(name_lower, env, k) ==
    IF k > Len(pymupdf_font_map) THEN None
    ELSE IF /\ StartsWith(name_lower, pymupdf_font_map[k][1])
            /\ pymupdf_font_map[k][2] \in env.builtin
         THEN Some(FontByName(pymupdf_font_map[k][2]))
         ELSE FamilyLookup(name_lower, env, k + 1)

Times == <<"t", "i", "m", "e", "s">>
Arial == <<"a", "r", "i", "a", "l">>
Helvetica == <<"h", "e", "l", "v", "e", "t", "i", "c", "a">>

\* steps 3 and 4, after the helper has returned (resolved_name, font_path)
AfterHelper(env) ==
    LET h == env.helper
        rl == Lower(Val(h.name))
        last == IF env.resolved
                THEN [raised |-> FALSE, font |-> Some(FontByName(Val(h.name)))]
                ELSE IF Helv \in env.builtin
                THEN [raised |-> FALSE, font |-> Some(FontByName(Helv))]
                ELSE [raised |-> TRUE, font |-> None]
    IN IF h.path # None /\ env.file
       THEN [raised |-> FALSE, font |-> Some(FontByFile(Val(h.path)))]
       ELSE IF h.name = None
       THEN [raised |-> TRUE, font |-> None]       \* None.lower()
       ELSE IF Contains(rl, Times)
       THEN (IF Tiro \in env.builtin
             THEN [raised |-> FALSE, font |-> Some(FontByName(Tiro))]
             ELSE last)
       ELSE IF Contains(rl, Arial) \/ Contains(rl, Helvetica)
       THEN (IF Helv \in env.builtin
             THEN [raised |-> FALSE, font |-> Some(FontByName(Helv))]
             ELSE last)
       ELSE last

\* _get_font(name) with the cache as it is: [raised, font, cache]
get_font(cache, name, env) ==
    LET fam == FamilyLookup(Lower(name), env, 1)
        r == IF name \in DOMAIN cache
             THEN [raised |-> FALSE, font |-> Some(cache[name])]
             ELSE IF env.exact
             THEN [raised |-> FALSE, font |-> Some(FontByName(name))]
             ELSE IF fam # None
             THEN [raised |-> FALSE, font |-> fam]
             ELSE IF env.helper.raises
             THEN [raised |-> TRUE, font |-> None]
             ELSE AfterHelper(env)
    IN [raised |-> r.raised,
        font |-> r.font,
        cache |-> IF r.raised THEN cache
                  ELSE [n \in DOMAIN cache \cup {name} |->
                          IF n = name THEN Val(r.font) ELSE cache[n]]]

----------------------------------------------------------------------------
(* replace_text_preserve_layout_pdf._replace_once: redaction and drawing *)

\* the first n characters of a sequence of spans, span by span
RECURSIVE TakeSpans(_, _)
TakeSpans(spans, n) ==
    IF n <= 0 \/ spans = <<>> THEN <<>>
    ELSE IF Len(Head(spans)) <= n
         THEN <<Head(spans)>> \o TakeSpans(Tail(spans), n - Len(Head(spans)))
         ELSE <<SubSeq(Head(spans), 1, n)>>

\* what is left of a sequence of spans without its first n characters
RECURSIVE DropSpans(_, _)
DropSpans(spans, n) ==
    IF spans = <<>> THEN <<>>
    ELSE IF n <= 0 THEN spans
    ELSE IF Len(Head(spans)) <= n
         THEN DropSpans(Tail(spans), n - Len(Head(spans)))
         ELSE <<SubSeq(Head(spans), n + 1, Len(Head(spans)))>> \o Tail(spans)

Clamp(v, lo, hi) == IF v < lo THEN lo ELSE IF v > hi THEN hi ELSE v

\* r.intersects(glyph bbox) for the glyph at offset k of a line
GlyphHit(line, k, r) ==
    /\ line.y0 < r.y1 /\ r.y0 < line.y1
    /\ line.x0 + k < r.x1 /\ r.x0 < line.x0 + k + 1

\* target_glyphs: (line, offset) of the glyphs of the page that meet r
TargetGlyphs(page, r) ==
    {g \in UNION {{<<l, k>> : k \in 0..(Len(LineText(page.lines[l])) - 1)} :
                    l \in 1..Len(page.lines)} :
       GlyphHit(page.lines[g[1]], g[2], r)}

\* page.add_redact_annot(rect); page.apply_redactions(): what is left of
\* one line, as the lines to the left and to the right of the rectangle
RedactLine(line, r) ==
    LET n == Len(LineText(line))
        nl == Clamp(r.x0 - line.x0, 0, n)
        kr == Clamp(r.x1 - line.x0, 0, n)
        left == IF nl > 0
                THEN <<[line EXCEPT !.spans = TakeSpans(line.spans, nl)]>>
                ELSE <<>>
        right == IF kr < n
                 THEN <<[line EXCEPT !.x0 = line.x0 + kr,
                                     !.spans = DropSpans(line.spans, kr)]>>
                 ELSE <<>>
    IN IF ~(line.y0 < r.y1 /\ r.y0 < line.y1) \/ nl >= kr THEN <<line>>
       ELSE left \o right

RECURSIVE RedactLines(_, _)
RedactLines(lines, r) ==
    IF lines = <<>> THEN <<>>
    ELSE RedactLine(Head(lines), r) \o RedactLines(Tail(lines), r)

\* writer.append(...) for every character of the text, then
\* writer.write_text(page): a new line of one span that starts at rect.x0.
\* The baseline shift is not modelled: the text takes the vertical band of
\* the rectangle.
DrawnLine(r, text) ==
    IF text = <<>> THEN <<>>
    ELSE <<[x0 |-> r.x0, y0 |-> r.y0, y1 |-> r.y1, spans |-> <<text>>]>>

\* the page after the replacement of the rectangle r by repl
ReplaceOnPage(page, r, repl) ==
    IF TargetGlyphs(page, r) = {} THEN page
    ELSE [page EXCEPT !.lines =
            RedactLines(page.lines, r)
              \o DrawnLine(r, sanitize_unicode_for_pdf(repl))]

\* the font every glyph of the modelled documents is set in
GlyphFont == <<"X", "y", "z">>

\* _replace_once from the point where the rectangle r on page p has been
\* selected; f is what _get_font does when it is called
ReplaceSelected(d, cache, repl, last_pos, sel, p, r, f) ==
    IF TargetGlyphs(d[p], r) = {}
    THEN [raised |-> FALSE, doc |-> d,
          pos |-> Some(page_offset(d, p) + r.y1), hit |-> sel,
          cache |-> cache]
    ELSE IF f.raised
    THEN [raised |-> TRUE,
          doc |-> [d EXCEPT ![p].lines = RedactLines(d[p].lines, r)],
          pos |-> last_pos, hit |-> sel, cache |-> cache]
    ELSE [raised |-> FALSE,
          doc |-> [d EXCEPT ![p] = ReplaceOnPage(d[p], r, repl)],
          pos |-> Some(page_offset(d, p) + r.y1), hit |-> sel,
          cache |-> f.cache]

\* _replace_once once the locating loop has ended with sel
ReplaceAt(d, cache, repl, last_pos, env, sel) ==
    IF sel = None
    THEN [raised |-> FALSE, doc |-> d, pos |-> last_pos, hit |-> None,
          cache |-> cache]
    ELSE ReplaceSelected(d, cache, repl, last_pos, sel, Val(sel).page,
                         Val(sel).rect, get_font(cache, GlyphFont, env))

\* _replace_once(search, repl, last_pos) with the fonts of env:
\* [raised, doc, pos, hit, cache]
replace_once(d, cache, search, repl, last_pos, env) ==
    ReplaceAt(d, cache, repl, last_pos, env, Locate(d, search, last_pos))

----------------------------------------------------------------------------
(* replace_text_preserve_layout_pdf: entry *)

\* An argument s1 or s2 is a string, [list |-> FALSE, v |-> <<the string>>],
\* or a list of strings, [list |-> TRUE, v |-> the sequence of strings].
StrArg(s) == [list |-> FALSE, v |-> <<s>>]
ListArg(l) == [list |-> TRUE, v |-> l]

\* str.splitlines() for the line break "\n"
RECURSIVE Splitlines(_)
Splitlines(s) ==
    LET brk == {k \in 1..Len(s) : s[k] = "\n"}
    IN IF s = <<>> THEN <<>>
       ELSE IF brk = {} THEN <<s>>
       ELSE <<SubSeq(s, 1, Min(brk) - 1)>>
            \o Splitlines(SubSeq(s, Min(brk) + 1, Len(s)))

HasBreak(a) == ~a.list /\ \E k \in 1..Len(a.v[1]) : a.v[1][k] = "\n"

multiline(a1, a2) == a1.list \/ a2.list \/ HasBreak(a1) \/ HasBreak(a2)

ArgLines(a, multi) ==
    IF multi THEN (IF a.list THEN a.v ELSE Splitlines(a.v[1])) ELSE a.v

\* variant: no check of s1
EmptySearchUnchecked(a1) == FALSE

\* if not s1: raise ValueError, for the empty string and the empty list
EmptySearch(a1) == IF a1.list THEN a1.v = <<>> ELSE a1.v[1] = <<>>

\* variant: only a shorter list of replacement lines is refused
LengthMismatchShorter(a1, a2) ==
    Len(ArgLines(a1, multiline(a1, a2))) > Len(ArgLines(a2, multiline(a1, a2)))

\* if len(s1_lines) != len(s2_lines): raise ValueError
LengthMismatch(a1, a2) ==
    Len(ArgLines(a1, multiline(a1, a2))) # Len(ArgLines(a2, multiline(a1, a2)))

\* variant: every search line counts as one that changes
related_lines_all(l1, l2) == {l1[i] : i \in 1..Len(l1)}

\* related_lines and the indices of the pairs that are kept
related_lines(l1, l2) ==
    {l1[i] : i \in {j \in 1..Len(l1) : l1[j] # l2[j]}}

RECURSIVE KeptFrom(_, _, _)
KeptFrom(l1, l2, i) ==
    IF i > Len(l1) THEN <<>>
    ELSE (IF l1[i] \in related_lines(l1, l2) THEN <<i>> ELSE <<>>)
         \o KeptFrom(l1, l2, i + 1)

Kept(l1, l2) == KeptFrom(l1, l2, 1)

cleaned_s1_lines(l1, l2) == [k \in 1..Len(Kept(l1, l2)) |-> l1[Kept(l1, l2)[k]]]
cleaned_s2_lines(l1, l2) == [k \in 1..Len(Kept(l1, l2)) |-> l2[Kept(l1, l2)[k]]]

\* The call from its first statement up to the loop: the two checks,
\* mkdtemp, fitz.open, the filter, the cursor.
DriverEnter ==
    /\ pc = "call"
    /\ LET multi == multiline(args.s1, args.s2)
           l1 == ArgLines(args.s1, multi)
           l2 == ArgLines(args.s2, multi)
       IN IF EmptySearch(args.s1) \/ LengthMismatch(args.s1, args.s2)
          THEN /\ pc' = "raised"
               /\ err' = "ValueError"
               /\ UNCHANGED <<s1_lines, s2_lines, doc, last_position, idx,
                              font_cache, tmp_dir, doc_open>>
          ELSE IF files[pdf_path] = None
          THEN /\ pc' = "raised"
               /\ err' = "OpenError"
               /\ tmp_dir' = TRUE
               /\ UNCHANGED <<s1_lines, s2_lines, doc, last_position, idx,
                              font_cache, doc_open>>
          ELSE /\ pc' = "loop"
               /\ tmp_dir' = TRUE
               /\ font_cache' = <<>>
               /\ doc' = Val(files[pdf_path])
               /\ doc_open' = TRUE
               /\ s1_lines' = cleaned_s1_lines(l1, l2)
               /\ s2_lines' = cleaned_s2_lines(l1, l2)
               /\ last_position' = args.position
               /\ idx' = 1
               /\ err' = err
    /\ log' = <<>>
    /\ UNCHANGED <<files, pdf_path, out_path, args, fpc, text_cursor, cb_in>>
    /\ UNCHANGED <<queueVars, cancelVars>>

----------------------------------------------------------------------------
(* replace_text_preserve_layout_pdf: the loop over the line pairs *)

InLoop == pc = "loop" /\ idx <= Len(s1_lines)

\* The record the history keeps of one processed line pair: the cursor
\* before and after, the page and rectangle selected (or None), whether
\* the document in memory changed, and, for a pair with search ==
\* replacement, what the locator returns for the document in memory.
Logged(kind, before, after, hit, changed, in_memory) ==
    Append(log, [kind |-> kind, search |-> s1_lines[idx],
                 repl |-> s2_lines[idx], before |-> before,
                 after |-> after, hit |-> hit, changed |-> changed,
                 in_memory |-> in_memory])

\* the font environments a driver call is run in: every construction
\* succeeds, or none does and the helper raises
FontAllFine ==
    [exact |-> TRUE, builtin |-> {Tiro, Helv, Cour},
     helper |-> [raises |-> FALSE, name |-> None, path |-> None],
     file |-> TRUE, resolved |-> TRUE]
FontHelperRaises ==
    [exact |-> FALSE, builtin |-> {Tiro, Helv, Cour},
     helper |-> [raises |-> TRUE, name |-> None, path |-> None],
     file |-> FALSE, resolved |-> FALSE]
DriverFontEnvs == {FontAllFine, FontHelperRaises}

\* One iteration of the loop over zip(s1_lines, s2_lines):
\*   if not search_line: continue
\*   if search_line == repl_line: the cursor becomes what the locator
\*     returns for the file at pdf_path
\*   else: last_position = _replace_once(...); an exception of _get_font
\*     leaves the function before the try block that cleans up
LoopStep ==
    /\ InLoop
    /\ IF s1_lines[idx] = <<>>
       THEN /\ idx' = idx + 1
            /\ UNCHANGED <<doc, last_position, pc, err, log, font_cache>>
       ELSE IF s1_lines[idx] = s2_lines[idx]
       THEN /\ last_position' =
                 get_string_last_char_position_pdf(Val(files[pdf_path]),
                     s1_lines[idx], last_position)
            /\ log' = Logged("skip", last_position, last_position', None,
                             FALSE,
                             get_string_last_char_position_pdf(doc,
                                 s1_lines[idx], last_position))
            /\ idx' = idx + 1
            /\ UNCHANGED <<doc, pc, err, font_cache>>
       ELSE \E env \in DriverFontEnvs :
            \E res \in {replace_once(doc, font_cache, s1_lines[idx],
                                     s2_lines[idx], last_position, env)} :
              /\ doc' = res.doc
              /\ font_cache' = res.cache
              /\ IF res.raised
                 THEN /\ pc' = "raised"
                      /\ err' = "FontError"
                      /\ UNCHANGED <<last_position, idx, log>>
                 ELSE /\ last_position' = res.pos
                      /\ log' = Logged("replace", last_position, res.pos,
                                       res.hit, res.doc # doc, None)
                      /\ idx' = idx + 1
                      /\ UNCHANGED <<pc, err>>
    /\ UNCHANGED <<files, pdf_path, out_path, args, s1_lines, s2_lines,
                   tmp_dir, doc_open, fpc, text_cursor, cb_in>>
    /\ UNCHANGED <<queueVars, cancelVars>>

\* variant: the document is saved whenever the call is in its loop
SaveAnyTime ==
    /\ pc = "loop"
    /\ out_path # pdf_path
    /\ files' = [files EXCEPT ![out_path] = Some(doc)]
    /\ pc' = "returned"
    /\ doc_open' = FALSE
    /\ tmp_dir' = FALSE
    /\ UNCHANGED <<pdf_path, out_path, args, s1_lines, s2_lines, doc,
                   last_position, idx, err, log, font_cache, fpc,
                   text_cursor, cb_in>>
    /\ UNCHANGED <<queueVars, cancelVars>>

\* the try block after the loop, when doc.save succeeds; the finally
\* clause removes the temporary directory
Save ==
    /\ pc = "loop"
    /\ idx > Len(s1_lines)
    /\ out_path # pdf_path
    /\ files' = [files EXCEPT ![out_path] = Some(doc)]
    /\ pc' = "returned"
    /\ doc_open' = FALSE
    /\ tmp_dir' = FALSE
    /\ UNCHANGED <<pdf_path, out_path, args, s1_lines, s2_lines, doc,
                   last_position, idx, err, log, font_cache, fpc,
                   text_cursor, cb_in>>
    /\ UNCHANGED <<queueVars, cancelVars>>

\* the try block after the loop, when doc.save raises: nothing is written
\* to the path being saved to, the finally clause closes the document and
\* removes the temporary directory
SaveFails ==
    /\ pc = "loop"
    /\ idx > Len(s1_lines)
    /\ out_path # pdf_path
    /\ pc' = "raised"
    /\ err' = "SaveError"
    /\ doc_open' = FALSE
    /\ tmp_dir' = FALSE
    /\ UNCHANGED <<files, pdf_path, out_path, args, s1_lines, s2_lines, doc,
                   last_position, idx, log, font_cache, fpc, text_cursor,
                   cb_in>>
    /\ UNCHANGED <<queueVars, cancelVars>>

DriverNext ==
    \/ DriverEnter
    \/ LoopStep
    \/ Save
    \/ SaveFails

----------------------------------------------------------------------------
(* The documents and arguments the model is run on *)

\* the placeholder and two values written in its place
P == <<"A">>
V == <<"v">>
W == <<"w">>

\* the lines of a document, as sequences of spans: the placeholder alone,
\* two placeholders in one span, two placeholders in two spans, the
\* placeholder after a label
LineKinds ==
    { << P >>,
      << <<"A", "b", "A">> >>,
      << P, <<"b", "A">> >>,
      << <<"b", "A">> >> }

\* the lower edges y1 of the text lines of a page and the heights of the
\* pages
Rows == {10, 40}
Heights == {20, 50}

\* a text line 8 units high at the left margin
TextLine(spans, y1) ==
    [x0 |-> 0, y0 |-> y1 - 8, y1 |-> y1, spans |-> spans]

\* the pages of n lines, top to bottom
PagesOf(kinds, n) ==
    UNION {
      UNION {
        {[height |-> h, lines |-> [i \in 1..n |-> TextLine(ks[i], rs[i])]] :
           ks \in [1..n -> kinds]} :
        rs \in {q \in [1..n -> {y \in Rows : y < h}] :
                  \A i \in 1..(n - 1) : q[i] < q[i + 1]}} :
      h \in Heights}

\* the documents of one or two pages and at most maxLines lines, no page
\* empty
DocsOf(kinds, maxLines) ==
    {<<pg>> : pg \in UNION {PagesOf(kinds, n) : n \in 1..maxLines}}
    \cup
    UNION {{<<pg, qg>> : pg \in PagesOf(kinds, n[1]), qg \in PagesOf(kinds, n[2])} :
             n \in {m \in (1..maxLines) \X (1..maxLines) : m[1] + m[2] <= maxLines}}

Docs == DocsOf(LineKinds, MaxLines)

Paths == {"form", "temp", "out"}

\* the lists of at most n elements of S
SeqsUpTo(S, n) == UNION {[1..k -> S] : k \in 0..n}

\* the line pairs of a call: the placeholder replaced by a value, or kept,
\* and an empty search line
Pairs == {<<P, V>>, <<P, W>>, <<P, P>>, <<(<<>>), V>>}

Firsts(ps) == [k \in 1..Len(ps) |-> ps[k][1]]
Seconds(ps) == [k \in 1..Len(ps) |-> ps[k][2]]

PairArgs(ps) ==
    [s1 |-> ListArg(Firsts(ps)), s2 |-> ListArg(Seconds(ps)), position |-> None]

\* the state in which the document d is on disk and the arguments a are
\* about to be handed to the function that pc names
InitAt(d, a, at) ==
    /\ files = [f \in Paths |-> IF f = "form" THEN Some(d) ELSE None]
    /\ pdf_path = "form"
    /\ out_path = "out"
    /\ args = a
    /\ s1_lines = <<>>
    /\ s2_lines = <<>>
    /\ doc = <<>>
    /\ last_position = None
    /\ idx = 1
    /\ pc = at
    /\ err = ""
    /\ log = <<>>
    /\ font_cache = <<>>
    /\ tmp_dir = FALSE
    /\ doc_open = FALSE
    /\ fpc = "none"
    /\ text_cursor = None
    /\ cb_in = <<>>
    /\ QueueIdle
    /\ RegistryIdle

\* a call of the driver on the document d with the arguments a
InitDriver(d, a) == InitAt(d, a, "call")

Init ==
    \E d \in Docs : \E ps \in SeqsUpTo(Pairs, MaxPairs) : InitDriver(d, PairArgs(ps))

Next == DriverNext

\* one call of replace_text_preserve_layout_pdf on any document, with any
\* list of line pairs
Spec == Init /\ [][Next]_vars

----------------------------------------------------------------------------
(* fill_flat_pdf_with_entries *)

\* update_checkbox(pattern, should_check) for the one-character patterns
update_checkbox(pattern, should_check) ==
    IF should_check
    THEN (CASE pattern = "BOX" -> "CHK"
            [] pattern = "SQUARE" -> "FILLEDSQUARE"
            [] pattern \in {"CIRCLE", "LARGECIRCLE"} -> "FILLEDCIRCLE"
            [] OTHER -> pattern)
    ELSE (CASE pattern = "CHK" -> "BOX"
            [] pattern = "XBOX" -> "BOX"
            [] pattern = "FILLEDSQUARE" -> "SQUARE"
            [] pattern \in {"CIRCLE", "LARGECIRCLE"} -> "CIRCLE"
            [] OTHER -> pattern)

\* the one-character alternatives of checkbox_regex
CheckboxPatterns ==
    {"BOX", "CHK", "XBOX", "SQUARE", "FILLEDSQUARE", "CIRCLE", "LARGECIRCLE",
     "FILLEDCIRCLE"}

\* checkbox_regex.sub(_replacer, entry.lines): current_index counts the
\* patterns met so far
RECURSIVE SubCheckboxes(_, _, _)
SubCheckboxes(text, checked_indices, current_index) ==
    IF text = <<>> THEN <<>>
    ELSE IF Head(text) \in CheckboxPatterns
         THEN <<update_checkbox(Head(text), current_index \in checked_indices)>>
              \o SubCheckboxes(Tail(text), checked_indices, current_index + 1)
         ELSE <<Head(text)>>
              \o SubCheckboxes(Tail(text), checked_indices, current_index)

update_checkbox_in_paragraph(entry) ==
    SubCheckboxes(entry.lines, entry.checked_indices, 0)

\* s1_lines and s2_lines of the text batch
RECURSIVE FillSearchLines(_)
FillSearchLines(entries) ==
    IF entries = <<>> THEN <<>>
    ELSE Splitlines(Head(entries).lines) \o FillSearchLines(Tail(entries))

RECURSIVE FillReplacementLines(_)
FillReplacementLines(entries) ==
    IF entries = <<>> THEN <<>>
    ELSE Splitlines(Head(entries).filled_lines)
         \o FillReplacementLines(Tail(entries))

\* s1_lines and s2_lines of the checkbox batch
RECURSIVE CheckboxSearchLines(_)
CheckboxSearchLines(entries) ==
    IF entries = <<>> THEN <<>>
    ELSE Splitlines(Head(entries).lines) \o CheckboxSearchLines(Tail(entries))

RECURSIVE CheckboxReplacementLines(_)
CheckboxReplacementLines(entries) ==
    IF entries = <<>> THEN <<>>
    ELSE Splitlines(update_checkbox_in_paragraph(Head(entries)))
         \o CheckboxReplacementLines(Tail(entries))

\* variant: the checkbox call is handed the cursor of the text batch
CheckboxPositionCarried(cursor) == cursor

\* the position argument of the checkbox batch's call: the call passes
\* none, whatever cursor the text batch ended with
CheckboxPosition(cursor) == None

CheckboxArgs(entries, cursor) ==
    [s1 |-> ListArg(CheckboxSearchLines(entries)),
     s2 |-> ListArg(CheckboxReplacementLines(entries)),
     position |-> CheckboxPosition(cursor)]

\* the checkbox and its checked form
Box == <<"BOX">>
Chk == <<"CHK">>

\* the fill entries: the placeholder filled with a value, filled with a
\* checkbox, left as it is, with filled_lines at its default "", or filled
\* with a value of two lines
FillEntries ==
    {[lines |-> P, filled_lines |-> V],
     [lines |-> P, filled_lines |-> Box],
     [lines |-> P, filled_lines |-> P],
     [lines |-> P, filled_lines |-> <<>>],
     [lines |-> P, filled_lines |-> <<"v", "\n", "w">>]}

\* the checkbox entries: the checkbox to be checked, or left unchecked
CheckboxEntries ==
    {[lines |-> Box, checked_indices |-> {0}],
     [lines |-> Box, checked_indices |-> {}]}

\* from the first statement to the first call of the driver
FillBegin ==
    /\ fpc = "start"
    /\ \E fe \in SeqsUpTo(FillEntries, MaxEntries) :
       \E ce \in SeqsUpTo(CheckboxEntries, MaxEntries) :
         /\ cb_in' = ce
         /\ IF fe # <<>>
            THEN /\ args' = [s1 |-> ListArg(FillSearchLines(fe)),
                             s2 |-> ListArg(FillReplacementLines(fe)),
                             position |-> None]
                 /\ pdf_path' = "form"
                 /\ out_path' = IF ce # <<>> THEN "temp" ELSE "out"
                 /\ pc' = "call"
                 /\ fpc' = "text"
            ELSE IF ce # <<>>
            THEN /\ args' = CheckboxArgs(ce, None)
                 /\ pdf_path' = "form"
                 /\ out_path' = "out"
                 /\ pc' = "call"
                 /\ fpc' = "checkbox"
            ELSE /\ fpc' = "cleanup"
                 /\ UNCHANGED <<args, pdf_path, out_path, pc>>
    /\ UNCHANGED <<files, s1_lines, s2_lines, doc, last_position, idx, err,
                   log, font_cache, tmp_dir, doc_open, text_cursor>>
    /\ UNCHANGED <<queueVars, cancelVars>>

\* the text batch has returned: current_path = after_fill_path, and the
\* second call of the driver if there are checkbox entries
FillCheckbox ==
    /\ fpc = "text"
    /\ pc = "returned"
    /\ text_cursor' = last_position
    /\ IF cb_in # <<>>
       THEN /\ args' = CheckboxArgs(cb_in, last_position)
            /\ pdf_path' = out_path
            /\ out_path' = "out"
            /\ pc' = "call"
            /\ fpc' = "checkbox"
       ELSE /\ fpc' = "cleanup"
            /\ UNCHANGED <<args, pdf_path, out_path, pc>>
    /\ UNCHANGED <<files, s1_lines, s2_lines, doc, last_position, idx, err,
                   log, font_cache, tmp_dir, doc_open, cb_in>>
    /\ UNCHANGED <<queueVars, cancelVars>>

\* the checkbox batch has returned
FillAfterCheckbox ==
    /\ fpc = "checkbox"
    /\ pc = "returned"
    /\ fpc' = "cleanup"
    /\ UNCHANGED <<files, pdf_path, out_path, args, s1_lines, s2_lines, doc,
                   last_position, idx, pc, err, log, font_cache, tmp_dir,
                   doc_open, text_cursor, cb_in>>
    /\ UNCHANGED <<queueVars, cancelVars>>

\* if temp_path.exists(): temp_path.unlink(); return output_path
FillCleanup ==
    /\ fpc = "cleanup"
    /\ files' = [files EXCEPT !["temp"] = None]
    /\ fpc' = "done"
    /\ UNCHANGED <<pdf_path, out_path, args, s1_lines, s2_lines, doc,
                   last_position, idx, pc, err, log, font_cache, tmp_dir,
                   doc_open, text_cursor, cb_in>>
    /\ UNCHANGED <<queueVars, cancelVars>>

\* an exception of a driver call leaves fill_flat_pdf_with_entries
FillRaise ==
    /\ fpc \in {"text", "checkbox"}
    /\ pc = "raised"
    /\ fpc' = "raised"
    /\ UNCHANGED <<files, pdf_path, out_path, args, s1_lines, s2_lines, doc,
                   last_position, idx, pc, err, log, font_cache, tmp_dir,
                   doc_open, text_cursor, cb_in>>
    /\ UNCHANGED <<queueVars, cancelVars>>

FillNext ==
    \/ FillBegin
    \/ FillCheckbox
    \/ FillAfterCheckbox
    \/ FillCleanup
    \/ FillRaise

FillDocs == DocsOf({<<P>>, <<Box>>}, MaxLines)

InitFill ==
    \E d \in FillDocs :
      /\ files = [f \in Paths |-> IF f = "form" THEN Some(d) ELSE None]
      /\ pdf_path = "form"
      /\ out_path = "out"
      /\ args = PairArgs(<<>>)
      /\ s1_lines = <<>>
      /\ s2_lines = <<>>
      /\ doc = <<>>
      /\ last_position = None
      /\ idx = 1
      /\ pc = "idle"
      /\ err = ""
      /\ log = <<>>
      /\ font_cache = <<>>
      /\ tmp_dir = FALSE
      /\ doc_open = FALSE
      /\ fpc = "start"
      /\ text_cursor = None
      /\ cb_in = <<>>
      /\ QueueIdle
      /\ RegistryIdle

NextFill == DriverNext \/ FillNext

\* one call of fill_flat_pdf_with_entries: the text batch, then the
\* checkbox batch
SpecFill == InitFill /\ [][NextFill]_vars

----------------------------------------------------------------------------
(* _get_font on its own: any font name, any outcome of every step *)

\* the font names asked for: one no table knows, and names of the families
\* of pymupdf_font_map
FontNames ==
    {GlyphFont, <<"T", "i", "m", "e", "s">>, <<"C", "M", "R">>}

\* what get_available_font returns or does
HelperOutcomes ==
    {[raises |-> TRUE, name |-> None, path |-> None]}
    \cup {[raises |-> FALSE, name |-> n, path |-> f] :
            n \in {None, Some(GlyphFont), Some(<<"T", "i", "m", "e", "s">>)},
            f \in {None, Some("ttf")}}

\* every combination of success and failure of the steps of _get_font
FontEnvs ==
    [exact : BOOLEAN, builtin : {{Tiro, Helv, Cour}, {Helv}, {}},
     helper : HelperOutcomes, file : BOOLEAN, resolved : BOOLEAN]

\* the font the four steps give when each is tried in order and the first
\* success wins: exact name, family table, helper file or known resolved
\* family, sans-serif built-in
LadderFont(name, env) ==
    LET fam == FamilyLookup(Lower(name), env, 1)
        h == env.helper
        rl == IF h.raises \/ h.name = None THEN <<>> ELSE Lower(Val(h.name))
    IN IF env.exact THEN FontByName(name)
       ELSE IF fam # None THEN Val(fam)
       ELSE IF ~h.raises /\ h.path # None /\ env.file
       THEN FontByFile(Val(h.path))
       ELSE IF Contains(rl, Times) /\ Tiro \in env.builtin
       THEN FontByName(Tiro)
       ELSE IF /\ ~Contains(rl, Times)
               /\ Contains(rl, Arial) \/ Contains(rl, Helvetica)
               /\ Helv \in env.builtin
       THEN FontByName(Helv)
       ELSE FontByName(Helv)

\* one call _get_font(name) within a driver call; the history keeps the
\* last resolution
ResolveFont ==
    /\ pc = "font"
    /\ \E name \in FontNames : \E env \in FontEnvs :
       \E res \in {get_font(font_cache, name, env)} :
         /\ font_cache' = res.cache
         /\ log' = <<[kind |-> "font", name |-> name, raised |-> res.raised,
                      font |-> res.font, helv |-> Helv \in env.builtin,
                      ladder |-> LadderFont(name, env),
                      cached |-> IF name \in DOMAIN font_cache
                                 THEN Some(font_cache[name]) ELSE None,
                      others |-> \A n \in DOMAIN font_cache :
                                   /\ n \in DOMAIN res.cache
                                   /\ res.cache[n] = font_cache[n]]>>
         /\ err' = IF res.raised THEN "FontError" ELSE ""
         /\ pc' = IF res.raised THEN "font_raised" ELSE "font"
    /\ UNCHANGED <<files, pdf_path, out_path, args, s1_lines, s2_lines, doc,
                   last_position, idx, tmp_dir, doc_open, fpc, text_cursor,
                   cb_in>>
    /\ UNCHANGED <<queueVars, cancelVars>>

\* the next driver call starts with font_cache = {}
FontNewCall ==
    /\ pc \in {"font", "font_raised"}
    /\ log # <<>>
    /\ pc' = "font"
    /\ font_cache' = <<>>
    /\ log' = <<>>
    /\ err' = ""
    /\ UNCHANGED <<files, pdf_path, out_path, args, s1_lines, s2_lines, doc,
                   last_position, idx, tmp_dir, doc_open, fpc, text_cursor,
                   cb_in>>
    /\ UNCHANGED <<queueVars, cancelVars>>

InitFont == \E d \in DocsOf({<<P>>}, 1) : InitAt(d, PairArgs(<<>>), "font")

NextFont == ResolveFont \/ FontNewCall

\* the resolutions of fonts of the driver calls on one document
SpecFont == InitFont /\ [][NextFont]_vars

----------------------------------------------------------------------------
(* One pair of strings with typographic characters *)

Dash == <<"EMDASH">>

\* the characters of the replacement strings: the eight characters the
\* sanitizer replaces and a plain one
ReplacementChars == UnicodeChars \cup {"v"}

\* the strings of at most n characters of S
StringsUpTo(S, n) == UNION {[1..k -> S] : k \in 0..n}

\* a call driver(pdf_path, s, r) with two plain strings: the search string
\* is the placeholder or a dash, the replacement any string of at most
\* MaxLen characters
InitUnicode ==
    \E d \in DocsOf({<<P>>, <<Dash>>}, 1) :
    \E s \in {P, Dash} :
    \E r \in StringsUpTo(ReplacementChars, MaxLen) :
      InitDriver(d, [s1 |-> StrArg(s), s2 |-> StrArg(r), position |-> None])

SpecUnicode == InitUnicode /\ [][DriverNext]_vars

----------------------------------------------------------------------------
(* The checks of the search argument *)

\* the search strings: empty, one blank, the placeholder
SearchStrings == {<<>>, <<" ">>, P}

\* s1 as one string or as a list, and an s2 of the same shape
SearchArgs ==
    {StrArg(s) : s \in SearchStrings}
    \cup {ListArg(l) : l \in SeqsUpTo(SearchStrings, MaxPairs)}

ValuesFor(a1) ==
    IF a1.list THEN ListArg([k \in 1..Len(a1.v) |-> V]) ELSE StrArg(V)

\* a direct call get_string_last_char_position_pdf(pdf_path, s,
\* position=position) with s = args.s1
LocatorCall ==
    /\ pc = "locate"
    /\ IF LocatorRaises(args.s1.v[1])
       THEN /\ pc' = "raised"
            /\ err' = "ValueError"
            /\ UNCHANGED <<last_position, log>>
       ELSE /\ pc' = "located"
            /\ last_position' =
                 get_string_last_char_position_pdf(Val(files[pdf_path]),
                                                   args.s1.v[1], args.position)
            /\ log' = <<[kind |-> "locate", search |-> args.s1.v[1],
                         repl |-> args.s1.v[1], before |-> args.position,
                         after |-> last_position', hit |-> None,
                         changed |-> FALSE, in_memory |-> None]>>
            /\ err' = err
    /\ UNCHANGED <<files, pdf_path, out_path, args, s1_lines, s2_lines, doc,
                   idx, font_cache, tmp_dir, doc_open, fpc, text_cursor,
                   cb_in>>
    /\ UNCHANGED <<queueVars, cancelVars>>

\* a call of the driver with any search argument, or of the locator with
\* any search string and start position
InitArgs ==
    \E d \in DocsOf({<<P>>}, MaxLines) :
      \/ \E a1 \in SearchArgs :
           InitDriver(d, [s1 |-> a1, s2 |-> ValuesFor(a1), position |-> None])
      \/ \E s \in SearchStrings : \E pos \in {None, Some(10)} :
           InitAt(d, [s1 |-> StrArg(s), s2 |-> StrArg(s), position |-> pos],
                  "locate")

NextArgs == DriverNext \/ LocatorCall

SpecArgs == InitArgs /\ [][NextArgs]_vars

----------------------------------------------------------------------------
(* One driver call with any lists, input file and output path *)

\* tmp_out = out_path.with_suffix(".tmp.pdf")
TmpOut(path) ==
    CASE path = "form" -> "form.tmp"
      [] path = "out" -> "out.tmp"
      [] OTHER -> "temp.tmp"

\* the try block after the loop when out_path is the input file and
\* doc.save(tmp_out), doc.close() and shutil.move(tmp_out, out_path) all
\* succeed
SaveInPlace ==
    /\ pc = "loop"
    /\ idx > Len(s1_lines)
    /\ out_path = pdf_path
    /\ files' = [files EXCEPT ![out_path] = Some(doc),
                              ![TmpOut(out_path)] = None]
    /\ pc' = "returned"
    /\ doc_open' = FALSE
    /\ tmp_dir' = FALSE
    /\ UNCHANGED <<pdf_path, out_path, args, s1_lines, s2_lines, doc,
                   last_position, idx, err, log, font_cache, fpc,
                   text_cursor, cb_in>>
    /\ UNCHANGED <<queueVars, cancelVars>>

\* what a failed step of the in-place save leaves at tmp_out: doc.save
\* raises with no file or with a truncated one (the empty document
\* stands for it), or shutil.move raises with the saved file in place
TmpOutLeft == {None, Some(<<>>), Some(doc)}

\* the same try block when doc.save or shutil.move raises: the finally
\* clause closes the document and removes the temporary directory
SaveInPlaceFails ==
    /\ pc = "loop"
    /\ idx > Len(s1_lines)
    /\ out_path = pdf_path
    /\ \E left \in TmpOutLeft :
         files' = [files EXCEPT ![TmpOut(out_path)] = left]
    /\ pc' = "raised"
    /\ err' = "SaveError"
    /\ doc_open' = FALSE
    /\ tmp_dir' = FALSE
    /\ UNCHANGED <<pdf_path, out_path, args, s1_lines, s2_lines, doc,
                   last_position, idx, log, font_cache, fpc, text_cursor,
                   cb_in>>
    /\ UNCHANGED <<queueVars, cancelVars>>

\* the lists of at most MaxPairs placeholders, and the lists of at most
\* MaxPairs replacement lines
SaveSearchLists == SeqsUpTo({P}, MaxPairs)
SaveReplacementLists == SeqsUpTo({V, P}, MaxPairs)

\* a call with lists of any two lengths, on an input file that exists or
\* not, saving to another path or over the input
InitSave ==
    \E d \in DocsOf({<<P>>}, 1) :
    \E present \in BOOLEAN :
    \E target \in {"form", "out"} :
    \E l1 \in SaveSearchLists :
    \E l2 \in SaveReplacementLists :
      /\ files = [f \in Paths \cup {"form.tmp"} |->
                    IF f = "form" /\ present THEN Some(d) ELSE None]
      /\ pdf_path = "form"
      /\ out_path = target
      /\ args = [s1 |-> ListArg(l1), s2 |-> ListArg(l2), position |-> None]
      /\ s1_lines = <<>>
      /\ s2_lines = <<>>
      /\ doc = <<>>
      /\ last_position = None
      /\ idx = 1
      /\ pc = "call"
      /\ err = ""
      /\ log = <<>>
      /\ font_cache = <<>>
      /\ tmp_dir = FALSE
      /\ doc_open = FALSE
      /\ fpc = "none"
      /\ text_cursor = None
      /\ cb_in = <<>>
      /\ QueueIdle
      /\ RegistryIdle

NextSave == DriverNext \/ SaveInPlace \/ SaveInPlaceFails

SpecSave == InitSave /\ [][NextSave]_vars

----------------------------------------------------------------------------
(* One driver call with two search strings, some pairs of which change
   nothing *)

\* a second search string, found in the line "bA"
Q == <<"b">>

FilterPairs == {<<P, V>>, <<P, P>>, <<Q, Q>>, <<Q, W>>, <<(<<>>), V>>}

InitFilter ==
    \E d \in DocsOf({<<P>>, << <<"b", "A">> >>}, 1) :
    \E ps \in SeqsUpTo(FilterPairs, MaxPairs) :
      InitDriver(d, PairArgs(ps))

SpecFilter == InitFilter /\ [][DriverNext]_vars

----------------------------------------------------------------------------
(* One driver call on a page with text whose glyph boxes are empty *)

\* a text line of height 0: search_for reports its hits, and no rectangle
\* intersects its glyph boxes, which are empty
FlatLine(spans, y1) == [x0 |-> 0, y0 |-> y1, y1 |-> y1, spans |-> spans]

GlyphDocs ==
    {<<[height |-> 50, lines |-> ls]>> :
       ls \in {<<FlatLine(<<P>>, 10)>>,
               <<FlatLine(<<P>>, 10), TextLine(<<P>>, 40)>>,
               <<TextLine(<<P>>, 10), FlatLine(<<P>>, 40)>>}}

InitGlyph ==
    \E d \in GlyphDocs :
    \E ps \in SeqsUpTo({<<P, V>>, <<P, W>>, <<P, P>>}, MaxPairs) :
      InitDriver(d, PairArgs(ps))

SpecGlyph == InitGlyph /\ [][DriverNext]_vars

----------------------------------------------------------------------------
(* LLMPriorityQueue (back/llm_priority_queue.py)                           *)
(*                                                                         *)
(* A task is known by its number, the value of _task_counter when it was   *)
(* submitted.  An entry of a queue carries the priority the entries are    *)
(* ordered by and the number of its task.  A thread of the list workers is *)
(* at "get" (blocked in, or about to call, get()), at "execute" (inside    *)
(* _execute_task) or "exited".  start() and stop() are not synchronised:   *)
(* each is split at the point where it has read self.running.              *)

\* most threads in the list workers
MaxThreads == 3
\* most tasks submitted
MaxTasks == 3
\* largest max_concurrent of the constructor
MaxConcurrent == 2

\* class Priority
URGENT == 0
HIGH == 1
NORMAL == 2
LOW == 3
Priority == {URGENT, HIGH, NORMAL, LOW}

\* the entry stop() puts into the queues: LLMTask(priority=int(1e9),
\* task_id="__shutdown__")
ShutdownId == 0
sentinel == [priority |-> 10^9, task_id |-> ShutdownId]

\* a thread started by start()
ThreadOf(kind) == [kind |-> kind, at |-> "get", task |-> 0]

\* start(): general_worker_count
general_worker_count == Max({max_concurrent - 1, 0})

\* start(), the test of self.running
StartCheck(t) ==
    /\ callers[t].at = "idle"
    /\ ~running
    /\ callers' = [callers EXCEPT ![t] = [at |-> "start", seen |-> {}]]
    /\ UNCHANGED <<max_concurrent, running, workers, queue, urgent_queue,
                   tasks, stop_returned>>
    /\ UNCHANGED <<pdfVars, cancelVars>>

\* start(), after the test of self.running: the flag is set, the urgent
\* thread and the general threads are started and appended to workers
StartThreads(t) ==
    /\ callers[t].at = "start"
    /\ Len(workers) + 1 + general_worker_count <= MaxThreads
    /\ running' = TRUE
    /\ workers' = workers \o <<ThreadOf("urgent")>>
                          \o [i \in 1..general_worker_count |->
                                ThreadOf("general")]
    /\ callers' = [callers EXCEPT ![t] = IdleCaller]
    /\ UNCHANGED <<max_concurrent, queue, urgent_queue, tasks, stop_returned>>
    /\ UNCHANGED <<pdfVars, cancelVars>>

\* stop(), the test of self.running; seen is the history of the tasks
\* submitted before this call
StopCheck(t) ==
    /\ callers[t].at = "idle"
    /\ running
    /\ callers' = [callers EXCEPT ![t] = [at |-> "stop",
                                          seen |-> 1..Len(tasks)]]
    /\ UNCHANGED <<max_concurrent, running, workers, queue, urgent_queue,
                   tasks, stop_returned>>
    /\ UNCHANGED <<pdfVars, cancelVars>>

\* the sentinels stop() puts into the priority queue
GeneralSentinels ==
    IF Len(workers) > 1
    THEN [e \in {sentinel} |-> Len(workers) - 1]
    ELSE EmptyBag

\* stop(), after the test: the flag is reset and the sentinels are queued
StopSignal(t) ==
    /\ callers[t].at = "stop"
    /\ running' = FALSE
    /\ queue' = queue (+) GeneralSentinels
    /\ urgent_queue' = Append(urgent_queue, sentinel)
    /\ callers' = [callers EXCEPT ![t].at = "join"]
    /\ UNCHANGED <<max_concurrent, workers, tasks, stop_returned>>
    /\ UNCHANGED <<pdfVars, cancelVars>>

\* stop() returns when every thread of workers has been joined
StopReturn(t) ==
    /\ callers[t].at = "join"
    /\ \A w \in 1..Len(workers) : workers[w].at = "exited"
    /\ stop_returned' = stop_returned \cup callers[t].seen
    /\ callers' = [callers EXCEPT ![t] = IdleCaller]
    /\ UNCHANGED <<max_concurrent, running, workers, queue, urgent_queue,
                   tasks>>
    /\ UNCHANGED <<pdfVars, cancelVars>>

\* submit() without the routing of lines 207-212: every task goes to the
\* priority queue
submit_one_queue(t, p) ==
    /\ callers[t].at = "idle"
    /\ Len(tasks) < MaxTasks
    /\ tasks' = Append(tasks, [priority |-> p, future |-> "pending"])
    /\ queue' = queue (+) SetToBag({[priority |-> p,
                                      task_id |-> Len(tasks) + 1]})
    /\ urgent_queue' = urgent_queue
    /\ UNCHANGED <<max_concurrent, running, workers, callers, stop_returned>>
    /\ UNCHANGED <<pdfVars, cancelVars>>

\* submit(func, priority=p)
submit(t, p) ==
    /\ callers[t].at = "idle"
    /\ Len(tasks) < MaxTasks
    /\ tasks' = Append(tasks, [priority |-> p, future |-> "pending"])
    /\ IF p = URGENT
       THEN /\ urgent_queue' = Append(urgent_queue,
                                 [priority |-> p, task_id |-> Len(tasks) + 1])
            /\ queue' = queue
       ELSE /\ queue' = queue (+) SetToBag({[priority |-> p,
                                             task_id |-> Len(tasks) + 1]})
            /\ urgent_queue' = urgent_queue
    /\ UNCHANGED <<max_concurrent, running, workers, callers, stop_returned>>
    /\ UNCHANGED <<pdfVars, cancelVars>>

\* the thread after get() has returned entry e
Taken(w, e) ==
    IF e.task_id = ShutdownId
    THEN [workers EXCEPT ![w].at = "exited"]
    ELSE [workers EXCEPT ![w].at = "execute", ![w].task = e.task_id]

\* a queue whose get() returns any entry, whatever its priority
AnyEntry(q) == BagToSet(q)

\* the entries PriorityQueue.get() can return: those of the least priority
Least(q) == {e \in BagToSet(q) : \A o \in BagToSet(q) : e.priority <= o.priority}

\* _worker: one turn of the loop, up to the call of the task
worker(w) ==
    /\ w \in DOMAIN workers
    /\ workers[w].kind = "general"
    /\ workers[w].at = "get"
    /\ \E e \in Least(queue) :
         /\ queue' = queue (-) SetToBag({e})
         /\ workers' = Taken(w, e)
    /\ UNCHANGED <<max_concurrent, running, urgent_queue, tasks, callers,
                   stop_returned>>
    /\ UNCHANGED <<pdfVars, cancelVars>>

\* _urgent_worker: one turn of the loop, up to the call of the task
urgent_worker(w) ==
    /\ w \in DOMAIN workers
    /\ workers[w].kind = "urgent"
    /\ workers[w].at = "get"
    /\ urgent_queue # <<>>
    /\ urgent_queue' = Tail(urgent_queue)
    /\ workers' = Taken(w, Head(urgent_queue))
    /\ UNCHANGED <<max_concurrent, running, queue, tasks, callers,
                   stop_returned>>
    /\ UNCHANGED <<pdfVars, cancelVars>>

\* _execute_task without the except clause of lines 172-178: an exception
\* of the function ends the thread and the future stays pending
execute_task_unguarded(w) ==
    /\ w \in DOMAIN workers
    /\ workers[w].at = "execute"
    /\ \/ /\ tasks' = [tasks EXCEPT ![workers[w].task].future = "result"]
          /\ workers' = [workers EXCEPT ![w].at = "get", ![w].task = 0]
       \/ /\ tasks' = tasks
          /\ workers' = [workers EXCEPT ![w].at = "exited", ![w].task = 0]
    /\ UNCHANGED <<max_concurrent, running, queue, urgent_queue, callers,
                   stop_returned>>
    /\ UNCHANGED <<pdfVars, cancelVars>>

\* _execute_task: the function of the task returns or raises, and the future
\* is completed
execute_task(w) ==
    /\ w \in DOMAIN workers
    /\ workers[w].at = "execute"
    /\ \E outcome \in {"result", "exception"} :
         tasks' = [tasks EXCEPT ![workers[w].task].future = outcome]
    /\ workers' = [workers EXCEPT ![w].at = "get", ![w].task = 0]
    /\ UNCHANGED <<max_concurrent, running, queue, urgent_queue, callers,
                   stop_returned>>
    /\ UNCHANGED <<pdfVars, cancelVars>>

\* the document functions when none of them has been called
PdfIdle ==
    /\ files = [f \in Paths |-> None]
    /\ pdf_path = "form"
    /\ out_path = "out"
    /\ args = PairArgs(<<>>)
    /\ s1_lines = <<>>
    /\ s2_lines = <<>>
    /\ doc = <<>>
    /\ last_position = None
    /\ idx = 1
    /\ pc = "idle"
    /\ err = ""
    /\ log = <<>>
    /\ font_cache = <<>>
    /\ tmp_dir = FALSE
    /\ doc_open = FALSE
    /\ fpc = "none"
    /\ text_cursor = None
    /\ cb_in = <<>>

\* LLMPriorityQueue(max_concurrent=m)
InitQueue ==
    /\ PdfIdle
    /\ RegistryIdle
    /\ max_concurrent \in 0..MaxConcurrent
    /\ running = FALSE
    /\ workers = <<>>
    /\ queue = EmptyBag
    /\ urgent_queue = <<>>
    /\ tasks = <<>>
    /\ callers = [t \in Threads |-> IdleCaller]
    /\ stop_returned = {}

NextQueue ==
    \/ \E t \in Threads : StartCheck(t)
    \/ \E t \in Threads : StartThreads(t)
    \/ \E t \in Threads : StopCheck(t)
    \/ \E t \in Threads : StopSignal(t)
    \/ \E t \in Threads : StopReturn(t)
    \/ \E t \in Threads : \E p \in Priority : submit(t, p)
    \/ \E w \in 1..MaxThreads : worker(w)
    \/ \E w \in 1..MaxThreads : urgent_worker(w)
    \/ \E w \in 1..MaxThreads : execute_task(w)

SpecQueue == InitQueue /\ [][NextQueue]_vars

----------------------------------------------------------------------------
(* The queue as get_llm_queue() hands it out: constructed with            *)
(* max_concurrent >= 1 and started once.  Two threads submit tasks, the   *)
(* workers serve them, and one of the threads may stop the queue.         *)

\* LLMPriorityQueue(max_concurrent=m).start() has returned
InitServe ==
    /\ PdfIdle
    /\ RegistryIdle
    /\ max_concurrent \in 1..MaxConcurrent
    /\ running = TRUE
    /\ workers = <<ThreadOf("urgent")>>
                   \o [i \in 1..general_worker_count |-> ThreadOf("general")]
    /\ queue = EmptyBag
    /\ urgent_queue = <<>>
    /\ tasks = <<>>
    /\ callers = [t \in Threads |-> IdleCaller]
    /\ stop_returned = {}

NextServe ==
    \/ \E t \in Threads : \E p \in Priority : submit(t, p)
    \/ \E w \in 1..MaxThreads : worker(w)
    \/ \E w \in 1..MaxThreads : urgent_worker(w)
    \/ \E w \in 1..MaxThreads : execute_task(w)
    \/ StopCheck("t1")
    \/ StopSignal("t1")
    \/ StopReturn("t1")

SpecServe == InitServe /\ [][NextServe]_vars

\* one thread calls start(), stop() and submit() one after the other, so no
\* two calls overlap
NextLifecycle ==
    \/ StartCheck("t1")
    \/ StartThreads("t1")
    \/ StopCheck("t1")
    \/ StopSignal("t1")
    \/ StopReturn("t1")
    \/ \E p \in Priority : submit("t1", p)
    \/ \E w \in 1..MaxThreads : worker(w)
    \/ \E w \in 1..MaxThreads : urgent_worker(w)
    \/ \E w \in 1..MaxThreads : execute_task(w)

SpecLifecycle == InitQueue /\ [][NextLifecycle]_vars

\* the started queue while nobody stops it
NextLive ==
    \/ \E t \in Threads : \E p \in Priority : submit(t, p)
    \/ \E w \in 1..MaxThreads : worker(w)
    \/ \E w \in 1..MaxThreads : urgent_worker(w)
    \/ \E w \in 1..MaxThreads : execute_task(w)

\* every thread of the queue is scheduled again and again, and the function
\* of every task terminates: a thread that can return from get() does, and
\* a thread inside _execute_task leaves it
FairWorkers ==
    \A w \in 1..MaxThreads :
      /\ WF_vars(worker(w))
      /\ WF_vars(urgent_worker(w))
      /\ WF_vars(execute_task(w))

SpecLive == InitServe /\ [][NextLive]_vars /\ FairWorkers

----------------------------------------------------------------------------
(* The cancellation registry (back/cancel_manager.py)                      *)
(*                                                                         *)
(* A path is the sequence of its components; "/" in front makes it         *)
(* absolute and "~" in front stands for the home directory.  The empty     *)
(* sequence is the empty string.  Every function of the registry           *)
(* normalises its argument first and only then takes the lock, so a call   *)
(* is two steps: the call, and the statement under the lock.               *)

\* most operations of the registry in one behaviour
MaxOps == 4

\* os.getcwd() and the home directory of the process
Cwd == <<"/", "cwd">>
Home == <<"/", "home">>

\* os.path.expanduser
expanduser(path) ==
    IF path # <<>> /\ path[1] = "~" THEN Home \o Tail(path) ELSE path

\* os.path.normpath on the components after the root: "." is dropped and
\* ".." removes the component before it
RECURSIVE normpath(_, _)
normpath(parts, acc) ==
    IF parts = <<>> THEN acc
    ELSE IF Head(parts) = "." THEN normpath(Tail(parts), acc)
    ELSE IF Head(parts) = ".."
    THEN normpath(Tail(parts),
                  IF Len(acc) > 1 THEN SubSeq(acc, 1, Len(acc) - 1) ELSE acc)
    ELSE normpath(Tail(parts), Append(acc, Head(parts)))

\* os.path.abspath: a relative path is joined to the working directory
abspath(path) ==
    normpath(Tail(IF path # <<>> /\ path[1] = "/" THEN path ELSE Cwd \o path),
             <<"/">>)

\* _normalise
normalise(path) == abspath(expanduser(path))

\* the spellings the callers use: form, /cwd/./form and ~/form
FormPaths == {<<"form">>, <<"/", "cwd", ".", "form">>, <<"~", "form">>}

RegistryOps == {"cancel", "is_cancelled", "clear"}

\* the calls that have been made and have not returned
Pending == {t \in Threads : calls[t].op # "idle"}

\* a thread calls cancel, is_cancelled or clear: the first statement
\* normalises the path
RegistryCall(t) ==
    /\ calls[t].op = "idle"
    /\ Len(reg_log) + Cardinality(Pending) < MaxOps
    /\ \E op \in RegistryOps : \E p \in FormPaths :
         calls' = [calls EXCEPT ![t] = [op |-> op, path |-> p,
                                        norm |-> normalise(p), at |-> "lock",
                                        touched |-> FALSE]]
    /\ UNCHANGED <<cancelled, reg_log>>
    /\ UNCHANGED <<pdfVars, queueVars>>

\* the history after the call of thread t has run under the lock
Recorded(t, result) ==
    Append(reg_log, [op |-> calls[t].op, path |-> calls[t].path,
                     result |-> result])

\* cancel that puts the path into the set as it was spelt
cancel_unnormalised(t) ==
    /\ calls[t].op = "cancel"
    /\ calls[t].at = "lock"
    /\ cancelled' = cancelled \cup {calls[t].path}
    /\ reg_log' = Recorded(t, None)
    /\ calls' = [calls EXCEPT ![t] = IdleCall]
    /\ UNCHANGED <<pdfVars, queueVars>>

\* cancel: with _lock: _cancelled.add(norm)
cancel(t) ==
    /\ calls[t].op = "cancel"
    /\ calls[t].at = "lock"
    /\ cancelled' = cancelled \cup {calls[t].norm}
    /\ reg_log' = Recorded(t, None)
    /\ calls' = [calls EXCEPT ![t] = IdleCall]
    /\ UNCHANGED <<pdfVars, queueVars>>

\* is_cancelled: with _lock: return norm in _cancelled
is_cancelled(t) ==
    /\ calls[t].op = "is_cancelled"
    /\ calls[t].at = "lock"
    /\ reg_log' = Recorded(t, Some(calls[t].norm \in cancelled))
    /\ calls' = [calls EXCEPT ![t] = IdleCall]
    /\ UNCHANGED cancelled
    /\ UNCHANGED <<pdfVars, queueVars>>

\* clear: with _lock: _cancelled.discard(norm)
clear(t) ==
    /\ calls[t].op = "clear"
    /\ calls[t].at = "lock"
    /\ cancelled' = cancelled \ {calls[t].norm}
    /\ reg_log' = Recorded(t, None)
    /\ calls' = [calls EXCEPT ![t] = IdleCall]
    /\ UNCHANGED <<pdfVars, queueVars>>

InitCancel ==
    /\ PdfIdle
    /\ QueueIdle
    /\ RegistryIdle

NextCancel ==
    \/ \E t \in Threads : RegistryCall(t)
    \/ \E t \in Threads : cancel(t)
    \/ \E t \in Threads : is_cancelled(t)
    \/ \E t \in Threads : clear(t)

SpecCancel == InitCancel /\ [][NextCancel]_vars

----------------------------------------------------------------------------
(* The endpoints that test the registry (back/api.py) and the start of an  *)
(* LLM task (back/llm_client.py)                                           *)
(*                                                                         *)
(* A request is at "start", then at "work" (the handler reads or changes   *)
(* the document, the task contacts the provider), and ends at "ok", at     *)
(* "409" or at "cancelled"; touched records that the work was done.        *)

FillEndpoints == {"/docx/fill", "/pdf/fill", "/pdf/fill-interactive",
                  "/pdf/fill-dynamic", "/pdf/save-interactive"}

Endpoints == FillEndpoints \cup {"/form/cancel", "/form/text"}

\* the cancel_id of a task: a path, or nothing (None and "" alike)
CancelIds == FormPaths \cup {<<>>}

\* a call at a new position
At(t, at) == [calls EXCEPT ![t].at = at]

\* a request arrives at an endpoint
Request(t) ==
    /\ calls[t].op = "idle"
    /\ \E e \in Endpoints : \E p \in FormPaths :
         calls' = [calls EXCEPT ![t] = [op |-> e, path |-> p, norm |-> <<>>,
                                        at |-> "start", touched |-> FALSE]]
    /\ UNCHANGED <<cancelled, reg_log>>
    /\ UNCHANGED <<pdfVars, queueVars>>

\* a worker of the queue calls _query_gpt_internal(cancel_id=id)
query_gpt(t) ==
    /\ calls[t].op = "idle"
    /\ \E id \in CancelIds :
         calls' = [calls EXCEPT ![t] = [op |-> "llm", path |-> id,
                                        norm |-> <<>>, at |-> "start",
                                        touched |-> FALSE]]
    /\ UNCHANGED <<cancelled, reg_log>>
    /\ UNCHANGED <<pdfVars, queueVars>>

\* api_cancel_form
api_cancel_form(t) ==
    /\ calls[t].op = "/form/cancel"
    /\ calls[t].at = "start"
    /\ cancelled' = cancelled \cup {normalise(calls[t].path)}
    /\ calls' = At(t, "ok")
    /\ UNCHANGED reg_log
    /\ UNCHANGED <<pdfVars, queueVars>>

\* api_extract_form_text: if is_cancelled(req.form_path)
api_extract_form_text(t) ==
    /\ calls[t].op = "/form/text"
    /\ calls[t].at = "start"
    /\ calls' = At(t, IF normalise(calls[t].path) \in cancelled
                      THEN "clear" ELSE "work")
    /\ UNCHANGED <<cancelled, reg_log>>
    /\ UNCHANGED <<pdfVars, queueVars>>

\* api_extract_form_text: _clear_cancel(req.form_path)
ExtractClear(t) ==
    /\ calls[t].op = "/form/text"
    /\ calls[t].at = "clear"
    /\ cancelled' = cancelled \ {normalise(calls[t].path)}
    /\ calls' = At(t, "work")
    /\ UNCHANGED reg_log
    /\ UNCHANGED <<pdfVars, queueVars>>

\* a fill endpoint without the test of the registry
api_fill_unchecked(t) ==
    /\ calls[t].op \in FillEndpoints
    /\ calls[t].at = "start"
    /\ calls' = At(t, "work")
    /\ UNCHANGED <<cancelled, reg_log>>
    /\ UNCHANGED <<pdfVars, queueVars>>

\* api_fill_docx, api_fill_pdf, api_fill_interactive_pdf,
\* api_fill_dynamic_pdf, api_save_interactive_pdf: the first statement
api_fill(t) ==
    /\ calls[t].op \in FillEndpoints
    /\ calls[t].at = "start"
    /\ calls' = At(t, IF normalise(calls[t].path) \in cancelled
                      THEN "409" ELSE "work")
    /\ UNCHANGED <<cancelled, reg_log>>
    /\ UNCHANGED <<pdfVars, queueVars>>

\* _query_gpt_internal: if cancel_id and is_cancelled(cancel_id)
query_gpt_internal(t) ==
    /\ calls[t].op = "llm"
    /\ calls[t].at = "start"
    /\ calls' = At(t, IF calls[t].path # <<>>
                         /\ normalise(calls[t].path) \in cancelled
                      THEN "cancelled" ELSE "work")
    /\ UNCHANGED <<cancelled, reg_log>>
    /\ UNCHANGED <<pdfVars, queueVars>>

\* the rest of a handler or of a task: the document is read or changed, the
\* provider is contacted
Work(t) ==
    /\ calls[t].at = "work"
    /\ calls' = [calls EXCEPT ![t].at = "ok", ![t].touched = TRUE]
    /\ UNCHANGED <<cancelled, reg_log>>
    /\ UNCHANGED <<pdfVars, queueVars>>

\* the response is sent, the exception reaches the caller
Respond(t) ==
    /\ calls[t].at \in {"ok", "409", "cancelled"}
    /\ calls' = [calls EXCEPT ![t] = IdleCall]
    /\ UNCHANGED <<cancelled, reg_log>>
    /\ UNCHANGED <<pdfVars, queueVars>>

InitApi ==
    /\ PdfIdle
    /\ QueueIdle
    /\ RegistryIdle

NextApi ==
    \/ \E t \in Threads : Request(t)
    \/ \E t \in Threads : query_gpt(t)
    \/ \E t \in Threads : api_cancel_form(t)
    \/ \E t \in Threads : api_extract_form_text(t)
    \/ \E t \in Threads : ExtractClear(t)
    \/ \E t \in Threads : api_fill(t)
    \/ \E t \in Threads : query_gpt_internal(t)
    \/ \E t \in Threads : Work(t)
    \/ \E t \in Threads : Respond(t)

SpecApi == InitApi /\ [][NextApi]_vars

----------------------------------------------------------------------------
(* Properties of one driver call (specification Spec) *)

\* the document on disk that the call was given
Orig == Val(files["form"])

\* the occurrences of s in the document d, in document order: page by
\* page, top to bottom, left to right
RECURSIVE OccsFrom(_, _, _)
OccsFrom(d, s, p) ==
    IF p > Len(d) THEN <<>>
    ELSE [j \in 1..Len(search_for(d[p], s)) |->
            [page |-> p, rect |-> search_for(d[p], s)[j]]]
         \o OccsFrom(d, s, p + 1)

Occs(d, s) == OccsFrom(d, s, 1)

\* the selected rectangle is exactly the occurrence
LandsOn(hit, occ) ==
    /\ hit.page = occ.page
    /\ hit.rect.y1 = occ.rect.y1
    /\ hit.rect.x0 = occ.rect.x0
    /\ hit.rect.x1 = occ.rect.x1

\* the batch is N >= 2 pairs (P, r_i) with distinct replacements r_i # P
SameSearchBatch ==
    /\ args.s1.list
    /\ args.s2.list
    /\ Len(args.s1.v) >= 2
    /\ Len(args.s1.v) = Len(args.s2.v)
    /\ \A k \in 1..Len(args.s1.v) : args.s1.v[k] = P /\ args.s2.v[k] # P
    /\ \A j, k \in 1..Len(args.s2.v) : j # k => args.s2.v[j] # args.s2.v[k]

\* C1: in a document with at least two occurrences of the placeholder, the
\* i-th pair of a batch of pairs (P, r_i) with distinct replacements lands
\* on the i-th occurrence in document order.
C1_Ordering ==
    (/\ pc \in {"loop", "returned"}
     /\ SameSearchBatch
     /\ Len(Occs(Orig, P)) >= 2)
    => \A i \in 1..Len(log) :
         i <= Len(Occs(Orig, P))
         => /\ log[i].hit # None
            /\ LandsOn(Val(log[i].hit), Occs(Orig, P)[i])

\* a cursor value is not before another: unset is before everything
CursorLE(a, b) ==
    \/ a = None
    \/ (b # None /\ Val(a) <= Val(b))

\* C2: over the processed line pairs of one call the cursor never
\* decreases, and a cursor that is set never becomes unset again.
C2_CursorMonotone ==
    \A i \in 1..Len(log) : CursorLE(log[i].before, log[i].after)

\* the pair had no eligible occurrence: _replace_once selected nothing, or
\* the locator of the skip branch returned None
NoEligible(e) ==
    IF e.kind = "replace" THEN e.hit = None ELSE e.after = None

\* C3: a pair whose search string has no eligible occurrence leaves the
\* document and the cursor unchanged, for replace pairs and skip pairs.
C3_NoOpOnAbsence ==
    \A i \in 1..Len(log) :
      NoEligible(log[i])
      => /\ ~log[i].changed
         /\ log[i].after = log[i].before

\* C4: a pair with search = replacement does not change the document,
\* moves the cursor to the next occurrence after the cursor in the document
\* being edited, and a later replace pair with the same search string
\* lands below the skipped occurrence.
C4_IdempotentSkip ==
    \A i \in 1..Len(log) :
      log[i].kind = "skip"
      => /\ ~log[i].changed
         /\ log[i].after = log[i].in_memory
         /\ \A j \in (i + 1)..Len(log) :
              (/\ log[j].kind = "replace"
               /\ log[j].search = log[i].search
               /\ log[j].hit # None
               /\ log[i].after # None)
              => Val(log[j].after) > Val(log[i].after)

\* the characters drawn over the cell [x, x + 1] of the text line with
\* lower edge y1 of page p
CharsAt(d, p, y1, x) ==
    {LineText(d[p].lines[l])[x - d[p].lines[l].x0 + 1] :
       l \in {m \in 1..Len(d[p].lines) :
                /\ d[p].lines[m].y1 = y1
                /\ d[p].lines[m].x0 <= x
                /\ x < d[p].lines[m].x0 + Len(LineText(d[p].lines[m]))}}

\* the batch is (P, v1), (P, v2) with no start position
TwoPairBatch ==
    /\ args.s1 = ListArg(<<P, P>>)
    /\ args.s2.list
    /\ Len(args.s2.v) = 2
    /\ args.s2.v[1] # P
    /\ args.s2.v[2] # P
    /\ args.position = None

\* C5: when one line holds the two occurrences of the placeholder and the
\* batch is (P, v1), (P, v2), the saved document has v1 at the left
\* occurrence, v2 at the right one and the text between them as it was.
C5_SameLine ==
    (/\ pc = "returned"
     /\ TwoPairBatch
     /\ Len(Occs(Orig, P)) = 2
     /\ Occs(Orig, P)[1].page = Occs(Orig, P)[2].page
     /\ Occs(Orig, P)[1].rect.y1 = Occs(Orig, P)[2].rect.y1)
    => LET o1 == Occs(Orig, P)[1]
           o2 == Occs(Orig, P)[2]
           out == Val(files[out_path])
       IN /\ CharsAt(out, o1.page, o1.rect.y1, o1.rect.x0) = {args.s2.v[1][1]}
          /\ CharsAt(out, o2.page, o2.rect.y1, o2.rect.x0) = {args.s2.v[2][1]}
          /\ \A x \in o1.rect.x1..(o2.rect.x0 - 1) :
               CharsAt(out, o1.page, o1.rect.y1, x)
                 = CharsAt(Orig, o1.page, o1.rect.y1, x)

\* C7: after a replace pair has landed on page p, with every earlier hit
\* on pages up to p, the next replace pair of the same search string finds
\* an occurrence when a later page holds one, and never lands on a page
\* before p.
C7_DocumentOrder ==
    \A i \in 1..(Len(log) - 1) :
      (/\ log[i].kind = "replace"
       /\ log[i].hit # None
       /\ log[i + 1].kind = "replace"
       /\ log[i + 1].search = log[i].search
       /\ \A j \in 1..i :
            log[j].hit # None => Val(log[j].hit).page <= Val(log[i].hit).page)
      => /\ (\E q \in (Val(log[i].hit).page + 1)..Len(Orig) :
               search_for(Orig[q], log[i].search) # <<>>)
            => log[i + 1].hit # None
         /\ log[i + 1].hit # None
            => Val(log[i + 1].hit).page >= Val(log[i].hit).page

----------------------------------------------------------------------------
(* Properties of fill_flat_pdf_with_entries (specification SpecFill) *)

\* the checkbox batch is at the head of its loop
CheckboxBatchStarts ==
    fpc = "checkbox" /\ pc = "loop" /\ idx = 1 /\ log = <<>>

\* C6 as stated: the checkbox batch starts at the cursor the text batch
\* ended with.
C6_CursorCarried ==
    (CheckboxBatchStarts /\ text_cursor # None)
    => last_position = text_cursor

\* C6: the checkbox batch is called without a start position and starts
\* with an unset cursor, on the file the text batch saved, whatever cursor
\* the text batch ended with.
C6_CheckboxFromTop ==
    /\ fpc = "checkbox" => args.position = None
    /\ CheckboxBatchStarts
       => /\ last_position = None
          /\ doc = Val(files[pdf_path])

\* the text batch ended with a set cursor and the checkbox batch has
\* replaced a checkbox at or above it
C6_Witness ==
    /\ fpc = "checkbox"
    /\ text_cursor # None
    /\ \E i \in 1..Len(log) :
         /\ log[i].kind = "replace"
         /\ log[i].hit # None
         /\ log[i].changed
         /\ Val(log[i].after) <= Val(text_cursor)

----------------------------------------------------------------------------
(* Properties of _get_font (specification SpecFont) *)

\* C8: whatever the font name and whichever steps fail, as long as the
\* built-in font helv can be constructed, _get_font does not raise and
\* returns a font handle.
C8_FontFallback ==
    \A i \in 1..Len(log) :
      (log[i].kind = "font" /\ log[i].helv)
      => /\ ~log[i].raised
         /\ log[i].font # None

----------------------------------------------------------------------------
(* Properties of the sanitizer (specification SpecUnicode) *)

\* the texts of the lines of page p of d that start at the left edge of
\* the rectangle r, in its vertical band
TextsAt(d, p, r) ==
    {LineText(d[p].lines[l]) :
       l \in {m \in 1..Len(d[p].lines) :
                /\ d[p].lines[m].x0 = r.x0
                /\ d[p].lines[m].y1 = r.y1}}

\* C9: the first pair is located with the search string as given, and the
\* text drawn at the selected rectangle is the sanitized replacement,
\* which holds none of the eight typographic characters and is left as it
\* is by the sanitizer.
C9_UnicodeSafety ==
    (log # <<>> /\ log[1].kind = "replace")
    => /\ log[1].hit = Locate(Orig, log[1].search, log[1].before)
       /\ log[1].hit # None
          => LET h == Val(log[1].hit)
                 drawn == TextsAt(doc, h.page, h.rect)
             IN /\ drawn = IF sanitize_unicode_for_pdf(log[1].repl) = <<>>
                           THEN {}
                           ELSE {sanitize_unicode_for_pdf(log[1].repl)}
                /\ \A text \in drawn :
                     /\ \A k \in 1..Len(text) : text[k] \notin UnicodeChars
                     /\ sanitize_unicode_for_pdf(text) = text

\* a dash was searched for and found, and the replacement drawn in its
\* place had typographic characters, a dash among them
C9_Witness ==
    /\ log # <<>>
    /\ log[1].kind = "replace"
    /\ log[1].search = Dash
    /\ log[1].hit # None
    /\ \E k \in 1..Len(log[1].repl) : log[1].repl[k] = "EMDASH"
    /\ \E k \in 1..Len(log[1].repl) : log[1].repl[k] = "NBSP"
    /\ TextsAt(doc, Val(log[1].hit).page, Val(log[1].hit).rect) # {}

----------------------------------------------------------------------------
(* Properties of the checks of the search argument (specification SpecArgs) *)

\* a string of blanks only, the empty string included
Blank(s) == \A k \in 1..Len(s) : s[k] = " "

\* the call ended with the ValueError of the check, or has not begun
Rejected ==
    \/ pc \in {"call", "locate"}
    \/ (pc = "raised" /\ err = "ValueError")

\* C10 as stated: a search argument that is empty or blank, or a list with
\* such an element, is rejected by the locator and by the driver.
C10_BlankRejected ==
    (args.s1.v = <<>> \/ \E k \in 1..Len(args.s1.v) : Blank(args.s1.v[k]))
    => Rejected

\* s1_lines without its empty lines
RECURSIVE NonEmptyLines(_)
NonEmptyLines(lines) ==
    IF lines = <<>> THEN <<>>
    ELSE (IF Head(lines) = <<>> THEN <<>> ELSE <<Head(lines)>>)
         \o NonEmptyLines(Tail(lines))

\* C10: the empty string, in the locator and in the driver, and the empty
\* list are rejected with ValueError before the document is opened; an
\* empty element of a list is not rejected and is never searched for; every
\* other line, a blank one included, is searched for.
C10_EmptyRejected ==
    /\ (args.s1.v = <<>> \/ (~args.s1.list /\ args.s1.v[1] = <<>>))
       => /\ Rejected
          /\ log = <<>>
          /\ ~doc_open
          /\ ~tmp_dir
    /\ \A i \in 1..Len(log) : log[i].search # <<>>
    /\ pc = "returned"
       => [i \in 1..Len(log) |-> log[i].search] = NonEmptyLines(s1_lines)

\* a call with the empty string as search argument has raised ValueError
\* before anything was opened
C10_Witness ==
    /\ pc = "raised"
    /\ err = "ValueError"
    /\ ~args.s1.list
    /\ args.s1.v[1] = <<>>

----------------------------------------------------------------------------
(* Properties of the entry and the save of a driver call (specification
   SpecSave) *)

\* the two lists of the call have different lengths
ListsDiffer == Len(args.s1.v) # Len(args.s2.v)

\* C11: a call whose lists of search lines and of replacement lines differ
\* in length ends with ValueError with nothing done: no pair processed, no
\* file written, no temporary directory made, no document opened.
C11_MismatchFailsFast ==
    ListsDiffer
    => /\ pc \in {"call", "raised"}
       /\ pc = "raised" => err = "ValueError"
       /\ log = <<>>
       /\ doc = <<>>
       /\ ~tmp_dir
       /\ ~doc_open
       /\ files["out"] = None
       /\ files["form.tmp"] = None

\* a call with one search line and two replacement lines has raised
C11_Witness ==
    /\ pc = "raised"
    /\ err = "ValueError"
    /\ Len(args.s1.v) = 1
    /\ Len(args.s2.v) = 2
    /\ files["form"] # None

\* C12: the file at out_path changes only in the step that ends the call
\* with its return, after the last line pair, and what is written is the
\* document as the loop left it; a call that raises leaves out_path as it
\* was.
C12_SingleSave ==
    [][files'[out_path] # files[out_path]
       => /\ pc = "loop"
          /\ idx > Len(s1_lines)
          /\ pc' = "returned"
          /\ files'[out_path] = Some(doc)]_vars

\* a call has processed two line pairs, changed the document and returned
\* with the edited document saved at out_path
C12_Witness ==
    /\ pc = "returned"
    /\ Len(log) >= 2
    /\ log[1].changed
    /\ files[out_path] = Some(doc)

\* C13: when out_path is the input file and the save fails, the input
\* file is as it was and nothing is left at the temporary path.
C13_AtomicInPlace ==
    [][(out_path = pdf_path /\ pc' = "raised" /\ err' = "SaveError")
       => /\ files'[pdf_path] = files[pdf_path]
          /\ files'[TmpOut(out_path)] = None]_vars

\* C14: when the call has ended, by return or by any exception, the
\* temporary font directory is removed and the document closed.
C14_Cleanup ==
    pc \in {"returned", "raised"} => (~tmp_dir /\ ~doc_open)

----------------------------------------------------------------------------
(* Properties of the lists and the result of fill_flat_pdf_with_entries
   (specification SpecFill) *)

\* C15: the list of search lines and the list of replacement lines handed
\* to the driver, for the text batch and for the checkbox batch, have the
\* same length, and the driver does not refuse them.
C15_EqualLengths ==
    fpc \in {"text", "checkbox"}
    => /\ Len(args.s1.v) = Len(args.s2.v)
       /\ err # "ValueError"

\* C16: when fill_flat_pdf_with_entries has returned output_path, the file
\* at that path is the document the last driver call saved.
C16_OutputWritten ==
    fpc = "done"
    => /\ files["out"] # None
       /\ files["out"] = Some(doc)

----------------------------------------------------------------------------
(* Properties of LLMPriorityQueue (specification SpecQueue) *)

\* the tasks the threads of the queue are executing
Executing == {w \in DOMAIN workers : workers[w].at = "execute"}

\* C17: for every max_concurrent the queue was constructed with, at every
\* moment the number of tasks being executed by the threads of the queue,
\* the urgent thread included, is at most max_concurrent.
C17_BoundedConcurrency == Cardinality(Executing) <= max_concurrent

\* C18: when stop() has returned, every thread of the queue has exited and
\* every task that was submitted before that stop() was called has been
\* executed and its future completed.
C18_GracefulStop ==
    \A id \in stop_returned : tasks[id].future # "pending"

----------------------------------------------------------------------------
(* Properties of the cancellation registry (specification SpecCancel) *)

\* the two spellings name one absolute path
SamePath(p, q) == normalise(p) = normalise(q)

\* before operation i of the history a cancel of a spelling of q has run
\* under the lock and no clear of a spelling of q has run after it
FlaggedAt(i, q) ==
    \E j \in 1..(i - 1) :
      /\ reg_log[j].op = "cancel"
      /\ SamePath(reg_log[j].path, q)
      /\ \A k \in (j + 1)..(i - 1) :
           ~(reg_log[k].op = "clear" /\ SamePath(reg_log[k].path, q))

----------------------------------------------------------------------------
(* Properties of the endpoints and of the start of an LLM task
   (specification SpecApi) *)

\* the path is in the registry
Cancelled(path) == normalise(path) \in cancelled

\* the thread takes a step of its request
Steps(t) == calls'[t] # calls[t]

\* C20: a fill or save endpoint called for a form whose path is cancelled
\* answers 409 before the document is read or changed; an LLM task whose
\* cancel_id is cancelled when it starts raises "LLM task cancelled" before
\* the provider is contacted; and a path leaves the registry only by the
\* step of a /form/text request for that form, which does remove it.
C20_CancelCheckedFirst ==
    [][/\ \A t \in Threads :
            /\ (/\ calls[t].op \in FillEndpoints
                /\ calls[t].at = "start"
                /\ Cancelled(calls[t].path)
                /\ Steps(t))
               => (calls'[t].at = "409" /\ ~calls'[t].touched)
            /\ (/\ calls[t].op = "llm"
                /\ calls[t].at = "start"
                /\ calls[t].path # <<>>
                /\ Cancelled(calls[t].path)
                /\ Steps(t))
               => (calls'[t].at = "cancelled" /\ ~calls'[t].touched)
            /\ (/\ calls[t].op = "/form/text"
                /\ calls[t].at = "start"
                /\ Cancelled(calls[t].path)
                /\ Steps(t))
               => calls'[t].at = "clear"
            /\ (calls[t].op = "/form/text" /\ calls[t].at = "clear" /\ Steps(t))
               => normalise(calls[t].path) \notin cancelled'
       /\ \A n \in cancelled \ cancelled' :
            \E t \in Threads :
              /\ calls[t].op = "/form/text"
              /\ normalise(calls[t].path) = n
              /\ Steps(t)]_vars

\* /pdf/fill has answered 409 for /cwd/./form while an LLM task with the
\* cancel_id form has been refused, neither having done its work
C20_Witness ==
    /\ calls["t1"].op = "/pdf/fill"
    /\ calls["t1"].path = <<"/", "cwd", ".", "form">>
    /\ calls["t1"].at = "409"
    /\ ~calls["t1"].touched
    /\ calls["t2"].op = "llm"
    /\ calls["t2"].path = <<"form">>
    /\ calls["t2"].at = "cancelled"
    /\ ~calls["t2"].touched
    /\ cancelled = {<<"/", "cwd", "form">>}

----------------------------------------------------------------------------
(* Properties of the selection of an occurrence (specification Spec) *)

\* the vertical position the code gives an occurrence of the document d
GlobalY(d, o) == page_offset(d, o.page) + o.rect.y1

\* the occurrences of s in d that lie strictly below the cursor, in
\* document order; every occurrence when the cursor is unset
EligibleOccs(d, s, cursor) ==
    SelectSeq(Occs(d, s),
              LAMBDA o : cursor = None \/ GlobalY(d, o) > Val(cursor))

\* no pair before pair i of the history has changed the document, so pair
\* i works on the document the call was given
OnOriginal(i) == \A j \in 1..(i - 1) : ~log[j].changed

\* C21: with a cursor set, the occurrence selected lies strictly below the
\* cursor and is the first such occurrence in page order, then top to
\* bottom; with the cursor unset it is the first occurrence.  This holds
\* for _replace_once (line-level scan and fallback) and for
\* get_string_last_char_position_pdf.
C21_StrictEligibility ==
    \A i \in 1..Len(log) :
      OnOriginal(i) =>
        LET el == EligibleOccs(Orig, log[i].search, log[i].before)
        IN IF log[i].kind = "replace"
           THEN IF el = <<>> THEN log[i].hit = None
                ELSE /\ log[i].hit # None
                     /\ Val(log[i].hit).page = el[1].page
                     /\ Val(log[i].hit).rect.y1 = el[1].rect.y1
           ELSE IF el = <<>> THEN log[i].after = None
                ELSE log[i].after = Some(GlobalY(Orig, el[1]))

----------------------------------------------------------------------------
(* Properties of the filter of the line pairs (specification SpecFilter) *)

\* the input pairs, as the lists of the call give them
InputPairs == [k \in 1..Len(args.s1.v) |-> <<args.s1.v[k], args.s2.v[k]>>]

\* some input pair with this search string has a different replacement
Changes(search) ==
    \E k \in 1..Len(args.s1.v) :
      args.s1.v[k] = search /\ args.s2.v[k] # search

\* the pairs the driver is to process, in their order in the input
ToProcess ==
    SelectSeq(InputPairs, LAMBDA pr : pr[1] # <<>> /\ Changes(pr[1]))

\* C22: the pairs the driver processes are exactly the input pairs, in
\* their order, whose search string is not empty and is the search string
\* of some pair with search # replacement; the other pairs are neither
\* located nor replaced.  While the call runs the pairs processed so far
\* are the first ones of that sequence; when it returns they are all of it.
C22_PairFiltering ==
    (pc \in {"loop", "returned", "raised"} /\ err # "ValueError")
    => /\ Len(log) <= Len(ToProcess)
       /\ \A i \in 1..Len(log) :
            log[i].search = ToProcess[i][1] /\ log[i].repl = ToProcess[i][2]
       /\ pc = "returned" => Len(log) = Len(ToProcess)

\* (b, b), (A, A), (A, v): the first pair is dropped, the other two are
\* processed
C22_Witness ==
    /\ pc = "returned"
    /\ InputPairs = <<(<<Q, Q>>), (<<P, P>>), (<<P, V>>)>>
    /\ Len(log) = 2
    /\ log[1].kind = "skip"
    /\ log[2].kind = "replace"

----------------------------------------------------------------------------
(* Properties of a replacement that meets no glyph (specification
   SpecGlyph) *)

\* pair i located a rectangle on the document the call was given and no
\* glyph of the page intersects it
NoGlyphMet(i) ==
    /\ log[i].kind = "replace"
    /\ log[i].hit # None
    /\ OnOriginal(i)
    /\ TargetGlyphs(Orig[Val(log[i].hit).page], Val(log[i].hit).rect) = {}

\* C23: when a rectangle is located and no glyph of the page intersects
\* it, nothing is redacted, nothing is drawn, and the cursor after the step
\* equals the cursor before it.
C23_NoGlyphNoOp ==
    \A i \in 1..Len(log) :
      NoGlyphMet(i) => (~log[i].changed /\ log[i].after = log[i].before)

----------------------------------------------------------------------------
(* Properties of the rectangle that is redacted (specification Spec) *)

\* the two rectangles have an area in common
Overlap(a, b) ==
    /\ a.x0 < b.x1 /\ b.x0 < a.x1
    /\ a.y0 < b.y1 /\ b.y0 < a.y1

\* the occurrences of the search string of pair i that the rectangle
\* selected for pair i covers, wholly or in part
Covered(i) ==
    {k \in 1..Len(Occs(Orig, log[i].search)) :
       /\ Occs(Orig, log[i].search)[k].page = Val(log[i].hit).page
       /\ Overlap(Occs(Orig, log[i].search)[k].rect, Val(log[i].hit).rect)}

\* C24: the rectangle selected for a replacement, the fallback union
\* included, holds the rectangles of one occurrence of the search string
\* only, so one replacement never redacts a second occurrence.
C24_SingleHit ==
    \A i \in 1..Len(log) :
      (log[i].kind = "replace" /\ log[i].hit # None /\ OnOriginal(i))
      => Cardinality(Covered(i)) <= 1

----------------------------------------------------------------------------
(* Properties of the font resolution ladder (specification SpecFont) *)

\* C25: a request for a name the cache holds returns the cached handle and
\* leaves the cache alone; any other request returns the font of the first
\* successful step of the ladder (exact, family table, helper file or known
\* resolved family, sans-serif built-in) and stores it under the name.
C25_FontLadder ==
    \A i \in 1..Len(log) :
      (log[i].kind = "font" /\ log[i].helv)
      => /\ ~log[i].raised
         /\ log[i].font = IF log[i].cached # None THEN log[i].cached
                          ELSE Some(log[i].ladder)
         /\ log[i].name \in DOMAIN font_cache
         /\ font_cache[log[i].name] = Val(log[i].font)
         /\ log[i].others

----------------------------------------------------------------------------
(* Properties of the served queue (specification SpecServe) *)

\* the threads of kind k that have not exited
Live(k) == {w \in DOMAIN workers : workers[w].kind = k /\ workers[w].at # "exited"}

\* the entries of the priority queue that are tasks
QueuedTasks == {e \in BagToSet(queue) : e.task_id # ShutdownId}

\* C26: a task is executed by the urgent worker exactly when it was
\* submitted with Priority.URGENT; the urgent queue never holds a
\* non-urgent task and the priority queue never holds an urgent one, so an
\* urgent task waits behind urgent tasks only, whatever the general
\* workers are doing.
C26_ReservedUrgentWorker ==
    /\ \A w \in DOMAIN workers :
         workers[w].at = "execute"
         => (workers[w].kind = "urgent"
             <=> tasks[workers[w].task].priority = URGENT)
    /\ \A k \in DOMAIN urgent_queue :
         urgent_queue[k].task_id # ShutdownId
         => urgent_queue[k].priority = URGENT
    /\ \A e \in QueuedTasks : e.priority # URGENT

\* an urgent task is being executed while every general worker is busy and
\* a non-urgent task is queued
C26_Witness ==
    /\ \E w \in Live("urgent") :
         /\ workers[w].at = "execute"
         /\ tasks[workers[w].task].priority = URGENT
    /\ Live("general") # {}
    /\ \A w \in Live("general") : workers[w].at = "execute"
    /\ QueuedTasks # {}

\* C27: whenever a general worker returns from get(), the task it has taken
\* has the least priority number of the tasks that were queued, and it has
\* taken a shutdown sentinel only if no task was queued.
C27_PriorityOrder ==
    [][\A w \in DOMAIN workers :
         (workers[w].kind = "general" /\ workers[w].at = "get"
          /\ workers'[w].at # "get")
         => IF workers'[w].at = "execute"
            THEN \A e \in QueuedTasks :
                   tasks[workers'[w].task].priority <= e.priority
            ELSE QueuedTasks = {}]_vars

\* a general worker executes a task that has overtaken a task submitted
\* before it, which is still queued, and stop() has queued its sentinel
C27_Witness ==
    /\ \E w \in Live("general") :
         /\ workers[w].at = "execute"
         /\ \E e \in QueuedTasks :
              /\ e.task_id < workers[w].task
              /\ tasks[workers[w].task].priority < e.priority
    /\ sentinel \in BagToSet(queue)

\* C28: whenever a thread leaves _execute_task, whether the function of
\* the task returned or raised, the future of the task is completed (an
\* exception is delivered through it), the thread is back at get() for the
\* next task, and the live workers are the same as before.
C28_FailureIsolation ==
    [][\A w \in DOMAIN workers :
         (workers[w].at = "execute" /\ workers'[w] # workers[w])
         => /\ tasks'[workers[w].task].future \in {"result", "exception"}
            /\ workers'[w].at = "get"
            /\ Live("urgent")' = Live("urgent")
            /\ Live("general")' = Live("general")]_vars

\* the only worker of a queue executes a task after a task whose function
\* raised, and the exception is in the future of that task
C28_Witness ==
    /\ Len(workers) = 1
    /\ Len(tasks) >= 2
    /\ tasks[1].future = "exception"
    /\ workers[1].at = "execute"
    /\ workers[1].task = 2

----------------------------------------------------------------------------
(* Liveness of the running queue (specification SpecLive) *)

\* C29: in a queue that is running, with max_concurrent >= 1, every task
\* passed to submit(), whatever its priority, is eventually executed and
\* its future completed with a result or an exception.
C29_EveryTaskCompletes ==
    \A id \in 1..MaxTasks :
      (Len(tasks) >= id)
      ~> (Len(tasks) >= id /\ tasks[id].future # "pending")

----------------------------------------------------------------------------
(* Properties of start() and stop() called in sequence (specification     *)
(* SpecLifecycle)                                                         *)

\* C30: once a sequence of start() and stop() calls on a queue with
\* max_concurrent >= 1 has ended with start(), the queue has exactly one
\* live urgent worker and max_concurrent - 1 live general workers, and
\* neither queue holds a shutdown sentinel.
C30_Lifecycle ==
    (callers["t1"].at = "idle" /\ running /\ max_concurrent >= 1)
    => /\ Cardinality(Live("urgent")) = 1
       /\ Cardinality(Live("general")) = max_concurrent - 1
       /\ sentinel \notin BagToSet(queue)
       /\ \A k \in DOMAIN urgent_queue : urgent_queue[k] # sentinel

====
